---- MODULE Spec2Model ----
(***************************************************************************)
(* The document interchange layer of OpenLautrec (src/main.py): the        *)
(* editor's document and image resource store, the load/save handlers of   *)
(* the main window (open_file, save_file, save_to_file, maybe_save,        *)
(* new_document, insert_image), the .olc container codec (save_as_olc,     *)
(* load_olc) and the entry points of the .docx/.odt/.html/.txt codecs.     *)
(*                                                                         *)
(* Strings and byte strings are sequences of integers.  A file on disk is  *)
(* a record: the bytes of a flat file, or the package content of a         *)
(* .docx/.odt file as the python-docx / odfpy object model presents it.    *)
(* Qt's QTextDocument is the library below the source: its document is a   *)
(* sequence of blocks of fragments (runs), toHtml/setHtml are a tagged     *)
(* serialisation of it, QTextEdit.clear() empties the document and its     *)
(* resources, setHtml/setPlainText replace the document and keep the       *)
(* resources added with addResource.                                       *)
(***************************************************************************)
EXTENDS Integers, Sequences, FiniteSets, TLC

\* Number of user operations in one run; also the wall clock of datetime.now().
MaxOps == 3

\* Number of image characters one document may hold.
MaxImages == 2

\* The number of operations on a dialog in a run.
MaxClicks == 4

\* The longest duration the spin boxes are set to, in seconds.
MaxDuration == 2

\* The stopwatch is watched up to this many seconds.
MaxSeconds == 4

\* The number of speech threads created in a run.
MaxThreads == 2

----------------------------------------------------------------------------
\* Sequences

RECURSIVE Concat(_)
Concat(ss) == IF ss = <<>> THEN <<>> ELSE Head(ss) \o Concat(Tail(ss))

RECURSIVE SumSeq(_)
SumSeq(s) ==
    IF s = <<>> THEN 0
    ELSE IF Len(s) = 1 THEN s[1]
    ELSE LET half == Len(s) \div 2
         IN SumSeq(SubSeq(s, 1, half)) + SumSeq(SubSeq(s, half + 1, Len(s)))

Take(s, n) == SubSeq(s, 1, IF n < Len(s) THEN n ELSE Len(s))

Drop(s, n) == SubSeq(s, n + 1, Len(s))

B2I(b) == IF b THEN 1 ELSE 0

----------------------------------------------------------------------------
\* The document model: QTextDocument blocks and fragments

\* U+FFFC, the character Qt stores in the text for an inline image.
ObjChar == 65532

Black == <<0, 0, 0>>

TextRun(t, b, i, u, c, href) ==
    [kind |-> "text", text |-> t, bold |-> b, italic |-> i, underline |-> u,
     color |-> c, href |-> href, name |-> <<>>, w |-> 0, h |-> 0]

ImageRun(name, w, h) ==
    [kind |-> "image", text |-> <<ObjChar>>, bold |-> FALSE, italic |-> FALSE,
     underline |-> FALSE, color |-> Black, href |-> <<>>, name |-> name,
     w |-> w, h |-> h]

Block(a, rs) == [align |-> a, runs |-> rs]

\* QTextEdit.clear(): one empty left-aligned block.
EmptyDoc == << Block("left", <<>>) >>

SameFormat(r, s) == [r EXCEPT !.text = <<>>] = [s EXCEPT !.text = <<>>]

\* A fragment is a maximal span of one format: a run inserted after a run of
\* the same format extends it.
AppendFragment(rs, r) ==
    IF rs # <<>> /\ SameFormat(rs[Len(rs)], r)
    THEN [rs EXCEPT ![Len(rs)].text = @ \o r.text]
    ELSE Append(rs, r)

\* cursor.insertText / insertImage at the end of the document.
InsertAtEnd(doc, r) ==
    LET d == IF doc = <<>> THEN EmptyDoc ELSE doc
    IN [d EXCEPT ![Len(d)].runs = AppendFragment(@, r)]

AllRuns(doc) == Concat([i \in 1..Len(doc) |-> doc[i].runs])

\* The image identifiers some run of the document refers to.
ImageRefs(doc) ==
    LET rs == AllRuns(doc)
    IN {rs[i].name : i \in {j \in 1..Len(rs) : rs[j].kind = "image"}}

NumImages(doc) ==
    LET rs == AllRuns(doc)
    IN SumSeq([i \in 1..Len(rs) |-> IF rs[i].kind = "image" THEN Len(rs[i].text) ELSE 0])

----------------------------------------------------------------------------
\* Markup: QTextDocument.toHtml() and QTextEdit.setHtml()

AlignCode(a) ==
    CASE a = "center" -> 2 [] a = "right" -> 3 [] a = "justify" -> 4 [] OTHER -> 1

AlignOf(c) ==
    CASE c = 2 -> "center" [] c = 3 -> "right" [] c = 4 -> "justify" [] OTHER -> "left"

\* A length-prefixed string.
Str(s) == <<Len(s)>> \o s

RunHtml(r) ==
    IF r.kind = "image"
    THEN Concat([k \in 1..Len(r.text) |-> <<2>> \o Str(r.name) \o <<r.w, r.h>>])
    ELSE <<3, B2I(r.bold), B2I(r.italic), B2I(r.underline)>> \o r.color
         \o Str(r.href) \o Str(r.text)

BlockHtml(b) ==
    <<1, AlignCode(b.align)>> \o Concat([i \in 1..Len(b.runs) |-> RunHtml(b.runs[i])])

ToHtml(doc) == Concat([i \in 1..Len(doc) |-> BlockHtml(doc[i])])

\* The importer is tolerant: it keeps what it could read and never fails.
RECURSIVE ParseHtml(_, _, _)
ParseHtml(m, i, acc) ==
    LET n == Len(m)
    IN IF i > n THEN acc
       ELSE IF m[i] = 1 /\ i + 1 <= n
       THEN ParseHtml(m, i + 2, Append(acc, Block(AlignOf(m[i + 1]), <<>>)))
       ELSE IF m[i] = 2 /\ i + 1 <= n /\ i + 3 + m[i + 1] <= n
       THEN LET k == m[i + 1]
            IN ParseHtml(m, i + 4 + k,
                   InsertAtEnd(acc, ImageRun(SubSeq(m, i + 2, i + 1 + k),
                                             m[i + 2 + k], m[i + 3 + k])))
       ELSE IF m[i] = 3 /\ i + 7 <= n /\ i + 8 + m[i + 7] <= n
               /\ i + 8 + m[i + 7] + m[i + 8 + m[i + 7]] <= n
       THEN LET hl == m[i + 7]
                tl == m[i + 8 + hl]
                r  == TextRun(SubSeq(m, i + 9 + hl, i + 8 + hl + tl),
                              m[i + 1] = 1, m[i + 2] = 1, m[i + 3] = 1,
                              SubSeq(m, i + 4, i + 6),
                              SubSeq(m, i + 8, i + 7 + hl))
            IN ParseHtml(m, i + 9 + hl + tl,
                         IF tl = 0 THEN acc ELSE InsertAtEnd(acc, r))
       ELSE acc

FromHtml(m) ==
    LET d == ParseHtml(m, 1, <<>>) IN IF d = <<>> THEN EmptyDoc ELSE d

\* QTextEdit.toPlainText(): the run texts, blocks separated by a line feed.
RECURSIVE PlainOfBlocks(_)
PlainOfBlocks(doc) ==
    IF doc = <<>> THEN <<>>
    ELSE LET rs == Head(doc).runs
             t  == Concat([i \in 1..Len(rs) |-> rs[i].text])
         IN IF Len(doc) = 1 THEN t ELSE t \o <<10>> \o PlainOfBlocks(Tail(doc))

ToPlainText(doc) == PlainOfBlocks(doc)

\* QTextEdit.setPlainText(): one block per line, default format.
RECURSIVE SplitLines(_, _)
SplitLines(s, cur) ==
    IF s = <<>> THEN <<cur>>
    ELSE IF Head(s) = 10 THEN <<cur>> \o SplitLines(Tail(s), <<>>)
    ELSE SplitLines(Tail(s), Append(cur, Head(s)))

FromPlainText(s) ==
    LET ls == SplitLines(s, <<>>)
    IN [i \in 1..Len(ls) |->
          Block("left", IF ls[i] = <<>> THEN <<>>
                        ELSE <<TextRun(ls[i], FALSE, FALSE, FALSE, Black, <<>>)>>)]

\* len(text.split()): the number of maximal runs of non-blank characters.
RECURSIVE CountWords(_, _)
CountWords(s, inWord) ==
    IF s = <<>> THEN 0
    ELSE LET blank == Head(s) \in {10, 32}
         IN (IF ~blank /\ ~inWord THEN 1 ELSE 0) + CountWords(Tail(s), ~blank)

----------------------------------------------------------------------------
\* Images: QImage and its PNG bytes (image.save(buffer, "PNG"), loadFromData)

NullImage == [w |-> 0, h |-> 0, px |-> 0]

PngBytes(img) == <<img.w \div 256, img.w % 256, img.h \div 256, img.h % 256, img.px>>

\* QImage.loadFromData: bytes that are no image leave the image null.
FromPng(b) ==
    IF Len(b) = 5 /\ b[1] * 256 + b[2] > 0 /\ b[3] * 256 + b[4] > 0
    THEN [w |-> b[1] * 256 + b[2], h |-> b[3] * 256 + b[4], px |-> b[5]]
    ELSE NullImage

\* QTextDocument.addResource(ImageResource, QUrl(name), image)
AddResource(res, name, img) == (name :> img) @@ res

\* QTextDocument.resource(ImageResource, QUrl(name))
Resource(res, name) == IF name \in DOMAIN res THEN res[name] ELSE NullImage

NoResources == << >>

----------------------------------------------------------------------------
\* The .olc container: struct.pack, pickle.dumps, gzip.compress

\* b'OLC!'
Magic == <<79, 76, 67, 33>>

\* struct.pack('f', 1.0), native (little-endian) IEEE-754 single precision.
PackedOne == <<0, 0, 128, 63>>

\* struct.pack('f', 2.0)
PackedTwo == <<0, 0, 0, 64>>

\* struct.unpack('f', b)[0] > 1.0
FloatGtOne(b) ==
    LET sign == b[4] \div 128
        ex   == (b[4] % 128) * 2 + b[3] \div 128
        man  == (b[3] % 128) * 65536 + b[2] * 256 + b[1]
    IN /\ sign = 0
       /\ ~(ex = 255 /\ man # 0)
       /\ (ex > 127 \/ (ex = 127 /\ man > 0))

\* A variant that writes the most significant byte first.
PackQBigEndian(n) ==
    <<0, 0, 0, 0, (n \div 16777216) % 256, (n \div 65536) % 256, (n \div 256) % 256,
      n % 256>>

\* struct.pack('Q', n): 8 bytes, least significant first (n < 2^31 here).
PackQ(n) ==
    <<n % 256, (n \div 256) % 256, (n \div 65536) % 256, (n \div 16777216) % 256,
      0, 0, 0, 0>>

\* The value is above sys.maxsize (2^63 - 1): file.read(n) raises OverflowError.
QOverflow(b) == b[8] >= 128

\* The value does not fit the model's integers; every file is shorter than it.
QBig(b) == b[4] >= 128 \/ b[5] # 0 \/ b[6] # 0 \/ b[7] # 0 \/ b[8] # 0

\* struct.unpack('Q', b)[0]
UnpackQ(b) ==
    IF QBig(b) THEN 2147483647
    ELSE b[1] + 256 * b[2] + 65536 * b[3] + 16777216 * b[4]

\* A pickled value: type tag (1 str, 2 bytes, 3 any other type), length, content.
Val(t, v) == <<t, Len(v)>> \o v

\* images[image_name] = ...: a dict keeps the place of a key it already has.
DictSet(d, k, v) ==
    IF \E i \in 1..Len(d) : d[i].name = k
    THEN [i \in 1..Len(d) |-> IF d[i].name = k THEN [name |-> k, t |-> 2, blob |-> v] ELSE d[i]]
    ELSE Append(d, [name |-> k, t |-> 2, blob |-> v])

\* The loop of save_as_olc over the blocks and fragments of the document.
RECURSIVE CollectImages(_, _, _)
CollectImages(rs, res, acc) ==
    IF rs = <<>> THEN acc
    ELSE LET r == Head(rs)
         IN CollectImages(Tail(rs), res,
               IF r.kind = "image" /\ Resource(res, r.name) # NullImage
               THEN DictSet(acc, r.name, PngBytes(Resource(res, r.name)))
               ELSE acc)

\* olc_data of save_as_olc.
Snapshot(doc, res, now) ==
    [html     |-> [t |-> 1, v |-> ToHtml(doc)],
     plain    |-> ToPlainText(doc),
     images   |-> CollectImages(AllRuns(doc), res, <<>>),
     words    |-> CountWords(ToPlainText(doc), FALSE),
     chars    |-> Len(ToPlainText(doc)),
     created  |-> now,
     modified |-> now]

\* pickle.dumps(olc_data)
Pickle(snap) ==
    <<128>> \o Val(snap.html.t, snap.html.v) \o Val(1, snap.plain)
    \o <<Len(snap.images)>>
    \o Concat([i \in 1..Len(snap.images) |->
                 Val(1, snap.images[i].name) \o Val(snap.images[i].t, snap.images[i].blob)])
    \o <<snap.words, snap.chars, snap.created, snap.modified, 46>>

ReadVal(s, i) ==
    IF i + 1 <= Len(s) /\ s[i] \in {1, 2, 3} /\ s[i + 1] >= 0 /\ i + 1 + s[i + 1] <= Len(s)
    THEN [ok |-> TRUE, t |-> s[i], v |-> SubSeq(s, i + 2, i + 1 + s[i + 1]),
          next |-> i + 2 + s[i + 1]]
    ELSE [ok |-> FALSE, t |-> 0, v |-> <<>>, next |-> i]

RECURSIVE ReadImages(_, _, _, _)
ReadImages(s, i, n, acc) ==
    IF n <= 0 THEN [ok |-> TRUE, images |-> acc, next |-> i]
    ELSE LET k == ReadVal(s, i)
             b == ReadVal(s, k.next)
         IN IF k.ok /\ k.t = 1 /\ b.ok
            THEN ReadImages(s, b.next, n - 1,
                            Append(acc, [name |-> k.v, t |-> b.t, blob |-> b.v]))
            ELSE [ok |-> FALSE, images |-> <<>>, next |-> i]

BadPickle ==
    [ok |-> FALSE, html |-> [t |-> 1, v |-> <<>>], plain |-> <<>>, images |-> <<>>,
     words |-> 0, chars |-> 0, created |-> 0, modified |-> 0]

\* pickle.loads(serialized_data)
Unpickle(s) ==
    IF s = <<>> \/ s[1] # 128 THEN BadPickle
    ELSE LET h == ReadVal(s, 2)
             p == ReadVal(s, h.next)
         IN IF ~(h.ok /\ p.ok /\ p.t = 1 /\ p.next <= Len(s)) THEN BadPickle
            ELSE LET im == ReadImages(s, p.next + 1, s[p.next], <<>>)
                 IN IF ~im.ok \/ im.next + 4 # Len(s) \/ s[Len(s)] # 46 THEN BadPickle
                    ELSE [ok |-> TRUE, html |-> [t |-> h.t, v |-> h.v], plain |-> p.v,
                          images |-> im.images,
                          words |-> s[im.next], chars |-> s[im.next + 1],
                          created |-> s[im.next + 2], modified |-> s[im.next + 3]]

\* The CRC-32 of the gzip trailer.
Crc(s) == SumSeq(s) % 251

\* gzip.compress(data): header, data, trailer (checksum and size).
Gzip(s) == <<31, 139>> \o s \o <<Crc(s), Len(s) % 256>>

\* gzip.decompress(data): fails on a bad header or trailer.
Gunzip(z) ==
    LET body == SubSeq(z, 3, Len(z) - 2)
    IN IF Len(z) >= 4 /\ z[1] = 31 /\ z[2] = 139
          /\ z[Len(z) - 1] = Crc(body) /\ z[Len(z)] = Len(body) % 256
       THEN [ok |-> TRUE, data |-> body]
       ELSE [ok |-> FALSE, data |-> <<>>]

\* The four writes of save_as_olc, in order: magic, version, length, payload.
OlcChunks(doc, res, now) ==
    LET serialized_data == Pickle(Snapshot(doc, res, now))
        compressed_data == Gzip(serialized_data)
    IN <<Magic, PackedOne, PackQ(Len(compressed_data)), compressed_data>>

----------------------------------------------------------------------------
\* The state of the program and of its environment

VARIABLES
    doc,             \* text_edit.document(): blocks of fragments
    resources,       \* the image resources of the document: name -> QImage
    current_file,    \* self.current_file, "" is None
    is_modified,     \* self.is_modified
    fs,              \* the files on disk: name -> file
    writable,        \* whether files can be created and written on this disk
    DOCX_AVAILABLE,  \* python-docx was imported
    ODT_AVAILABLE,   \* odfpy was imported
    id_reuse,        \* the allocator hands the address of a released object out again
    clock,           \* number of operations so far; datetime.now()
    dialogs,         \* the message boxes the last operation showed, and its console lines
    io,              \* the file system calls of the last operation
    status,          \* the last status bar message
    last,            \* the last operation: its name, arguments, result, state before
    saved,           \* name -> the document and clock of the program's last write of it
    settings,        \* the Settings object, its file, and whether SettingsDialog is open
    timer,           \* the TimerDialog: its fields, its QTimer, its tab and its buttons
    speech           \* voice_thread and tts_thread, the threads running, their signals

vars == <<doc, resources, current_file, is_modified, fs, writable, DOCX_AVAILABLE,
          ODT_AVAILABLE, id_reuse, clock, dialogs, io, status, last, saved, settings,
          timer, speech>>

\* The names the save dialog can return, one per codec.
SaveNames == {"a.olc", "b.docx", "c.odt", "d.html", "e.txt", "f.htm"}

\* Files found on disk when the program starts.
OlcSamples == {"v1.olc", "v2.olc", "badmagic.olc", "trunc.olc", "huge.olc",
               "badgzip.olc", "badpickle.olc", "badimage.olc", "short.olc"}

DocxSamples == {"ext.docx", "badpara.docx", "garbage.docx"}

OdtSamples == {"ext.odt", "garbage.odt"}

HtmlSamples == {"ext.html", "bad.html"}

TxtSamples == {"ext.txt", "bad.txt"}

\* A container whose document holds an image wider than a page.
ExportSamples == {"wide.olc"}

FileNames ==
    SaveNames \cup OlcSamples \cup DocxSamples \cup OdtSamples \cup HtmlSamples
    \cup TxtSamples \cup ExportSamples

\* filename.endswith(suffix)
EndsWith(filename, suffix) ==
    CASE suffix = ".olc"  -> filename \in OlcSamples \cup ExportSamples \cup {"a.olc"}
      [] suffix = ".docx" -> filename \in DocxSamples \cup {"b.docx"}
      [] suffix = ".odt"  -> filename \in OdtSamples \cup {"c.odt"}
      [] suffix = ".html" -> filename \in HtmlSamples \cup {"d.html"}
      [] suffix = ".htm"  -> filename = "f.htm"
      [] suffix = ".txt"  -> filename \in TxtSamples \cup {"e.txt"}
      [] OTHER -> FALSE

NoFile == [kind |-> "none", bytes |-> <<>>, paras |-> <<>>, styles |-> <<>>]

BytesFile(b) == [kind |-> "bytes", bytes |-> b, paras |-> <<>>, styles |-> <<>>]

DocxFile(ps) == [kind |-> "docx", bytes |-> <<>>, paras |-> ps, styles |-> <<>>]

\* The paragraphs and headings of content.xml and its automatic styles.
OdtFile(ps, styles) == [kind |-> "odt", bytes |-> <<>>, paras |-> ps, styles |-> styles]

\* A byte that occurs in no UTF-8 text.
BadByte == 255

\* The bytes of a file; a .docx/.odt package is a zip archive ("PK", binary).
RawBytes(f) == IF f.kind = "bytes" THEN f.bytes ELSE <<80, 75, 3, 4, BadByte>>

\* The working state of a handler: the program state and what it has shown.
Ctx ==
    [doc |-> doc, resources |-> resources, current_file |-> current_file,
     is_modified |-> is_modified, fs |-> fs, dialogs |-> <<>>, io |-> <<>>,
     status |-> status, saved |-> saved]

\* QMessageBox.critical / warning / question
Dialog(c, icon, title, text) ==
    [c EXCEPT !.dialogs = Append(@, [icon |-> icon, title |-> title, text |-> text])]

\* traceback.print_exc() / print(...): a line on the console, kept with the
\* message boxes under the icon "log".
Traceback(c) ==
    [c EXCEPT !.dialogs = Append(@, [icon |-> "log", title |-> "console", text |-> "traceback"])]

\* A call of open, read, write or os.path.getsize.
IO(c, call, name, n) ==
    [c EXCEPT !.io = Append(@, [call |-> call, name |-> name, n |-> n])]

\* self.statusBar().showMessage
Status(c, msg) == [c EXCEPT !.status = msg]

\* The file of that name, NoFile when there is none.
FileOf(files, filename) == IF filename \in DOMAIN files THEN files[filename] ELSE NoFile

\* The file is created or replaced; `saved` remembers the document it was
\* written from and when.
Put(c, filename, f, d) ==
    [c EXCEPT !.fs = (filename :> f) @@ @,
              !.saved = (filename :> [doc |-> d, at |-> clock]) @@ @]

\* with open(filename, 'w' / 'wb') as f: f.write(chunk) for each chunk
WriteFile(c, filename, chunks) ==
    LET c1 == IO(c, "open", filename, 0)
        RECURSIVE Writes(_, _)
        Writes(cc, k) ==
            IF k > Len(chunks) THEN cc
            ELSE Writes(IO(cc, "write", filename, Len(chunks[k])), k + 1)
    IN Put(Writes(c1, 1), filename, BytesFile(Concat(chunks)), c.doc)

----------------------------------------------------------------------------
\* load_olc and save_as_olc

\* for image_name, image_bytes in images.items(): loadFromData, addResource.
\* A value that is not bytes makes loadFromData raise.
RECURSIVE AddImages(_, _)
AddImages(res, images) ==
    IF images = <<>> THEN [ok |-> TRUE, res |-> res]
    ELSE LET im == Head(images)
         IN IF im.t # 2 THEN [ok |-> FALSE, res |-> res]
            ELSE AddImages(AddResource(res, im.name, FromPng(im.blob)), Tail(images))

\* A variant of the second half that rebuilds the document from the
\* plain_text entry of the snapshot.
DeserializeFromPlain(c, filename, compressed_data) ==
    LET Failed(cc) == Traceback(Dialog(cc, "critical", "Erreur", "load_olc"))
        gz == Gunzip(compressed_data)
        olc_data == Unpickle(gz.data)
        added == AddImages(c.resources, olc_data.images)
        c1 == [c EXCEPT !.resources = added.res]
        c2 == [c1 EXCEPT !.doc = FromPlainText(olc_data.plain)]
    IN IF ~gz.ok THEN Failed(c)
       ELSE IF ~olc_data.ok THEN Failed(c)
       ELSE IF ~added.ok THEN Failed(c1)
       ELSE Status(IO(c2, "getsize", filename, 0), "olc charge")

\* gzip.decompress, pickle.loads, then the images and the markup of the snapshot.
Deserialize(c, filename, compressed_data) ==
    LET Failed(cc) == Traceback(Dialog(cc, "critical", "Erreur", "load_olc"))
        gz == Gunzip(compressed_data)
        olc_data == Unpickle(gz.data)
        added == AddImages(c.resources, olc_data.images)
        c1 == [c EXCEPT !.resources = added.res]
        c2 == [c1 EXCEPT !.doc = FromHtml(olc_data.html.v)]
    IN IF ~gz.ok THEN Failed(c)
       ELSE IF ~olc_data.ok THEN Failed(c)
       ELSE IF ~added.ok THEN Failed(c1)
       ELSE IF olc_data.html.t # 1 THEN Failed(c1)
       ELSE Status(IO(c2, "getsize", filename, 0), "olc charge")

\* A variant of the second half that empties the editor before it decodes the
\* payload, as load_docx and load_odt do after opening their file.
LoadOlcPayloadClearFirst(c, filename, compressed_data) ==
    Deserialize([c EXCEPT !.doc = EmptyDoc, !.resources = NoResources], filename,
                compressed_data)

\* The second half of load_olc, after the with block has closed the file.
LoadOlcPayload(c, filename, compressed_data) == Deserialize(c, filename, compressed_data)

\* A variant of the magic test that accepts every file.
AnyMagic(magic) == FALSE

\* if magic != b'OLC!'
MagicMismatch(magic) == magic # Magic

\* A variant of the version test that never warns.
NeverNewer(version_bytes) == FALSE

\* if version > 1.0
NewerVersion(version_bytes) == FloatGtOne(version_bytes)

\* if len(compressed_data) != data_size
ShortRead(compressed_data, data_size) == Len(compressed_data) # data_size

LoadOlc(c, filename) ==
    LET Failed(cc) == Traceback(Dialog(cc, "critical", "Erreur", "load_olc"))
        Invalid(cc, why) == Dialog(cc, "critical", "Fichier invalide", why)
        data == RawBytes(FileOf(c.fs, filename))
        c0 == IO(c, "open", filename, 0)
        c1 == IO(c0, "read", filename, 4)
        magic == Take(data, 4)
        c2 == IO(c1, "read", filename, 4)
        version_bytes == Take(Drop(data, 4), 4)
        c3 == IF NewerVersion(version_bytes)
              THEN Dialog(c2, "warning", "Version recente", "version") ELSE c2
        c4 == IO(c3, "read", filename, 8)
        size_bytes == Take(Drop(data, 8), 8)
        data_size == UnpackQ(size_bytes)
        c5 == IO(c4, "read", filename, data_size)
        compressed_data == Take(Drop(data, 16), data_size)
    IN IF FileOf(c.fs, filename).kind = "none" THEN Failed(c0)
       ELSE IF MagicMismatch(magic) THEN Invalid(c1, "magic")
       ELSE IF Len(version_bytes) # 4 THEN Failed(c2)
       ELSE IF Len(size_bytes) # 8 THEN Failed(c4)
       ELSE IF QOverflow(size_bytes) THEN Failed(c5)
       ELSE IF ShortRead(compressed_data, data_size) THEN Invalid(c5, "truncated")
       ELSE LoadOlcPayload(c5, filename, compressed_data)

SaveAsOlc(c, filename) ==
    LET chunks == OlcChunks(c.doc, c.resources, clock)
    IN IF ~writable
       THEN Traceback(Dialog(IO(c, "open", filename, 0), "critical", "Erreur", "save_as_olc"))
       ELSE Status(IO(WriteFile(c, filename, chunks), "getsize", filename, 0),
                   "olc enregistre")

----------------------------------------------------------------------------
\* save_as_html and the text files

SaveAsHtml(c, filename) ==
    IF ~writable
    THEN Dialog(IO(c, "open", filename, 0), "critical", "Erreur", "save_as_html")
    ELSE Status(WriteFile(c, filename, <<ToHtml(c.doc)>>), "html enregistre")

\* with open(filename, 'r', encoding='utf-8') as f: content = f.read()
\* raises for a missing file and for bytes that are not UTF-8.
ReadText(c, filename) ==
    LET f == FileOf(c.fs, filename)
        c1 == IO(c, "open", filename, 0)
    IN IF f.kind = "none" THEN [ok |-> FALSE, c |-> c1, content |-> <<>>]
       ELSE IF \E k \in 1..Len(RawBytes(f)) : RawBytes(f)[k] = BadByte
       THEN [ok |-> FALSE, c |-> IO(c1, "read", filename, -1), content |-> <<>>]
       ELSE [ok |-> TRUE, c |-> IO(c1, "read", filename, -1), content |-> RawBytes(f)]

----------------------------------------------------------------------------
\* load_docx and save_as_docx; a .docx file is the paragraphs python-docx sees

Blue == <<0, 0, 255>>

\* A child of a paragraph: a run (w:r), a picture run, or a w:hyperlink.
\* Widths and heights of pictures are in 1/96 inch.
DocxElem(kind, text, b, i, u, c, url, w, h) ==
    [kind |-> kind, text |-> text, bold |-> b, italic |-> i, underline |-> u,
     color |-> c, url |-> url, w |-> w, h |-> h]

\* A paragraph; `bad` marks one whose properties python-docx cannot read
\* (reading paragraph.alignment raises).
DocxPara(a, es, bad) == [align |-> a, elems |-> es, bad |-> bad]

\* A variant that embeds every picture at its pixel size, as save_as_odt does.
DocxOfRunNoClamp(r, res) ==
    IF r.kind = "image"
    THEN IF Resource(res, r.name) # NullImage
         THEN <<DocxElem("picture", <<>>, FALSE, FALSE, FALSE, Black, <<>>, r.w, r.h)>>
         ELSE <<>>
    ELSE IF r.href # <<>>
    THEN <<DocxElem("run", r.text, r.bold, r.italic, TRUE, Blue, <<>>, 0, 0),
           DocxElem("hyperlink", r.text, FALSE, FALSE, TRUE, Blue, r.href, 0, 0)>>
    ELSE <<DocxElem("run", r.text, r.bold, r.italic, r.underline, r.color, <<>>, 0, 0)>>

\* The elements save_as_docx adds to the paragraph for one fragment.
DocxOfRun(r, res) ==
    IF r.kind = "image"
    THEN IF Resource(res, r.name) # NullImage
         THEN LET clamp == r.w > 576
              IN <<DocxElem("picture", <<>>, FALSE, FALSE, FALSE, Black, <<>>,
                            IF clamp THEN 576 ELSE r.w,
                            IF clamp THEN (r.h * 576) \div r.w ELSE r.h)>>
         ELSE <<>>
    ELSE IF r.href # <<>>
    THEN <<DocxElem("run", r.text, r.bold, r.italic, TRUE, Blue, <<>>, 0, 0),
           DocxElem("hyperlink", r.text, FALSE, FALSE, TRUE, Blue, r.href, 0, 0)>>
    ELSE <<DocxElem("run", r.text, r.bold, r.italic, r.underline, r.color, <<>>, 0, 0)>>

DocxOfDoc(d, res) ==
    [k \in 1..Len(d) |->
       DocxPara(d[k].align,
                Concat([j \in 1..Len(d[k].runs) |-> DocxOfRun(d[k].runs[j], res)]),
                FALSE)]

\* A variant that creates the file before it looks for the library.
SaveAsDocxOpenFirst(c, filename) ==
    IF ~writable
    THEN Traceback(Dialog(IO(c, "open", filename, 0), "critical", "Erreur", "save_as_docx"))
    ELSE IF ~DOCX_AVAILABLE
    THEN Dialog(Put(IO(c, "open", filename, 0), filename, BytesFile(<<>>), c.doc),
                "warning", "Module manquant", "python-docx")
    ELSE Status(Put(IO(IO(c, "open", filename, 0), "write", filename, 0), filename,
                    DocxFile(DocxOfDoc(c.doc, c.resources)), c.doc),
                "docx enregistre")

SaveAsDocx(c, filename) ==
    IF ~DOCX_AVAILABLE THEN Dialog(c, "warning", "Module manquant", "python-docx")
    ELSE IF ~writable
    THEN Traceback(Dialog(IO(c, "open", filename, 0), "critical", "Erreur", "save_as_docx"))
    ELSE Status(Put(IO(IO(c, "open", filename, 0), "write", filename, 0), filename,
                    DocxFile(DocxOfDoc(c.doc, c.resources)), c.doc),
                "docx enregistre")

\* cursor.insertText("\n"): a new block with the block format of the current one.
NewBlock(d) == Append(d, Block(d[Len(d)].align, <<>>))

\* cursor.setBlockFormat(block_format) on the last block.
SetAlign(d, a) == [d EXCEPT ![Len(d)].align = a]

\* The try block around run.font.color.rgb: a color that cannot be read
\* (here <<>>) raises, the handler passes, and the foreground stays the default.
DocxColor(e) == IF Len(e.color) = 3 THEN e.color ELSE Black

\* A variant of the run loop that leaves the color of every run at its default.
RECURSIVE InsertDocxRunsNoColor(_, _)
InsertDocxRunsNoColor(d, es) ==
    IF es = <<>> THEN d
    ELSE LET e == Head(es)
         IN InsertDocxRunsNoColor(
               IF e.kind = "hyperlink" \/ e.text = <<>> THEN d
               ELSE InsertAtEnd(d, TextRun(e.text, e.bold, e.italic, e.underline,
                                           Black, <<>>)),
               Tail(es))

\* The runs of one paragraph: cursor.insertText(run.text, fmt) for each w:r.
RECURSIVE InsertDocxRuns(_, _)
InsertDocxRuns(d, es) ==
    IF es = <<>> THEN d
    ELSE LET e == Head(es)
         IN InsertDocxRuns(
               IF e.kind = "hyperlink" \/ e.text = <<>> THEN d
               ELSE InsertAtEnd(d, TextRun(e.text, e.bold, e.italic, e.underline,
                                           DocxColor(e), <<>>)),
               Tail(es))

\* The loop of load_docx over doc.paragraphs; stops at a paragraph that raises.
RECURSIVE InsertDocxParas(_, _)
InsertDocxParas(d, ps) ==
    IF ps = <<>> THEN [ok |-> TRUE, doc |-> d]
    ELSE LET p == Head(ps)
             d1 == IF p.align \in {"center", "right", "justify"} THEN SetAlign(d, p.align)
                   ELSE IF p.align \in {"left", "none"} THEN d
                   ELSE SetAlign(d, "left")
         IN IF p.bad THEN [ok |-> FALSE, doc |-> d]
            ELSE InsertDocxParas(NewBlock(InsertDocxRuns(d1, p.elems)), Tail(ps))

LoadDocx(c, filename) ==
    LET f == FileOf(c.fs, filename)
        c1 == IO(c, "open", filename, 0)
        c2 == [c1 EXCEPT !.doc = EmptyDoc, !.resources = NoResources]
        r == InsertDocxParas(EmptyDoc, f.paras)
        c3 == [c2 EXCEPT !.doc = r.doc]
    IN IF ~DOCX_AVAILABLE THEN Dialog(c, "warning", "Module manquant", "python-docx")
       ELSE IF f.kind # "docx" THEN Dialog(c1, "critical", "Erreur", "load_docx")
       ELSE IF ~r.ok THEN Dialog(c3, "critical", "Erreur", "load_docx")
       ELSE Status(c3, "docx ouvert")

----------------------------------------------------------------------------
\* load_odt and save_as_odt; an .odt file is the elements odfpy sees

\* An automatic text style: its style:name and the text-properties it holds.
\* A style name is a prefix and a number, as in style_<id> and link_<id>.
OdtStyle(name, b, i, u, c) ==
    [name |-> name, bold |-> b, italic |-> i, underline |-> u, color |-> c]

\* A child of a text:p / text:h element: a span, a link (text:a around a span),
\* a frame with an image, or a text node.  `style` is the style name a span
\* refers to, <<>> for none.  Frame sizes are in 1/96 inch.
OdtElem(kind, text, style, url, w, h) ==
    [kind |-> kind, text |-> text, style |-> style, url |-> url, w |-> w, h |-> h]

OdtPara(tag, es) == [tag |-> tag, elems |-> es]

\* id(fragment) for the k-th fragment save_as_odt visits.  The wrapper of the
\* previous fragment is released when `fragment` is rebound, so the allocator
\* may hand an earlier address out again; two fragments alive at the same
\* time, one and the next, never share one.
FragmentId(k) == IF id_reuse THEN 1 + (k % 2) ELSE k

\* A variant that gives the style of a link the color and the underline flag
\* stored in the fragment's format.
OdtOfRunStoredColor(r, res, k) ==
    IF r.kind = "image"
    THEN [elems |-> IF Resource(res, r.name) # NullImage
                    THEN <<OdtElem("frame", <<>>, <<>>, <<>>, r.w, r.h)>>
                    ELSE <<>>,
          styles |-> <<>>]
    ELSE IF r.href # <<>>
    THEN [elems |-> <<OdtElem("link", r.text, <<"link", FragmentId(k)>>, r.href, 0, 0)>>,
          styles |-> <<OdtStyle(<<"link", FragmentId(k)>>, r.bold, r.italic, r.underline,
                                r.color)>>]
    ELSE [elems |-> <<OdtElem("span", r.text, <<"style", FragmentId(k)>>, <<>>, 0, 0)>>,
          styles |-> <<OdtStyle(<<"style", FragmentId(k)>>, r.bold, r.italic, r.underline,
                                r.color)>>]

\* What save_as_odt adds for one fragment: the elements of the paragraph and
\* the automatic styles.
OdtOfRun(r, res, k) ==
    IF r.kind = "image"
    THEN [elems |-> IF Resource(res, r.name) # NullImage
                    THEN <<OdtElem("frame", <<>>, <<>>, <<>>, r.w, r.h)>>
                    ELSE <<>>,
          styles |-> <<>>]
    ELSE IF r.href # <<>>
    THEN [elems |-> <<OdtElem("link", r.text, <<"link", FragmentId(k)>>, r.href, 0, 0)>>,
          styles |-> <<OdtStyle(<<"link", FragmentId(k)>>, r.bold, r.italic, TRUE, Blue)>>]
    ELSE [elems |-> <<OdtElem("span", r.text, <<"style", FragmentId(k)>>, <<>>, 0, 0)>>,
          styles |-> <<OdtStyle(<<"style", FragmentId(k)>>, r.bold, r.italic, r.underline,
                                r.color)>>]

\* The loop over the blocks and their fragments; k counts the fragments
\* visited so far.
RECURSIVE OdtOfBlocks(_, _, _, _, _)
OdtOfBlocks(d, res, k, paras, styles) ==
    IF d = <<>> THEN [paras |-> paras, styles |-> styles]
    ELSE LET rs == Head(d).runs
             out == [j \in 1..Len(rs) |-> OdtOfRun(rs[j], res, k + j)]
         IN OdtOfBlocks(Tail(d), res, k + Len(rs),
                        Append(paras, OdtPara("p", Concat([j \in 1..Len(rs) |-> out[j].elems]))),
                        styles \o Concat([j \in 1..Len(rs) |-> out[j].styles]))

OdtOfDoc(d, res) == OdtOfBlocks(d, res, 0, <<>>, <<>>)

SaveAsOdt(c, filename) ==
    LET out == OdtOfDoc(c.doc, c.resources)
    IN IF ~ODT_AVAILABLE THEN Dialog(c, "warning", "Module manquant", "odfpy")
       ELSE IF ~writable
       THEN Traceback(Dialog(IO(c, "open", filename, 0), "critical", "Erreur", "save_as_odt"))
       ELSE Status(Put(IO(IO(c, "open", filename, 0), "write", filename, 0), filename,
                       OdtFile(out.paras, out.styles), c.doc),
                   "odt enregistre")

\* styles_dict[style_name]: the last style of that name, when there is one.
StyleNamed(styles, name) ==
    LET ks == {k \in 1..Len(styles) : styles[k].name = name}
    IN IF ks = {} THEN <<>>
       ELSE <<styles[CHOOSE k \in ks : \A j \in ks : j <= k]>>

\* A variant that drops the whole style when one of its properties does not
\* decode.
SpanRunAllOrNothing(e, styles) ==
    LET found == StyleNamed(styles, e.style)
    IN IF found = <<>> \/ Len(found[1].color) # 3
       THEN TextRun(e.text, FALSE, FALSE, FALSE, Black, <<>>)
       ELSE TextRun(e.text, found[1].bold, found[1].italic, found[1].underline,
                    found[1].color, <<>>)

\* _apply_odt_style on a fresh QTextCharFormat: the run a span becomes.  A
\* span without a known style keeps the default format, and a color that
\* does not decode is left at the default.
SpanRun(e, styles) ==
    LET found == StyleNamed(styles, e.style)
    IN IF found = <<>> THEN TextRun(e.text, FALSE, FALSE, FALSE, Black, <<>>)
       ELSE TextRun(e.text, found[1].bold, found[1].italic, found[1].underline,
                    IF Len(found[1].color) = 3 THEN found[1].color ELSE Black, <<>>)

\* _process_odt_element: text nodes and spans insert their text, a link is
\* walked down to its span, a frame holds no text.
RECURSIVE InsertOdtElems(_, _, _)
InsertOdtElems(d, es, styles) ==
    IF es = <<>> THEN d
    ELSE LET e == Head(es)
         IN InsertOdtElems(
               IF e.kind = "frame" \/ e.text = <<>> THEN d
               ELSE IF e.kind = "text"
               THEN InsertAtEnd(d, TextRun(e.text, FALSE, FALSE, FALSE, Black, <<>>))
               ELSE InsertAtEnd(d, SpanRun(e, styles)),
               Tail(es), styles)

RECURSIVE InsertOdtParas(_, _, _)
InsertOdtParas(d, ps, styles) ==
    IF ps = <<>> THEN d
    ELSE InsertOdtParas(NewBlock(InsertOdtElems(d, Head(ps).elems, styles)), Tail(ps),
                        styles)

\* elements = list(all_paragraphs) + list(all_headings)
OdtElements(ps) ==
    SelectSeq(ps, LAMBDA p : p.tag = "p") \o SelectSeq(ps, LAMBDA p : p.tag = "h")

LoadOdt(c, filename) ==
    LET f == FileOf(c.fs, filename)
        c1 == IO(c, "open", filename, 0)
        c2 == [c1 EXCEPT !.doc = InsertOdtParas(EmptyDoc, OdtElements(f.paras), f.styles),
                         !.resources = NoResources]
    IN IF ~ODT_AVAILABLE THEN Dialog(c, "warning", "Module manquant", "odfpy")
       ELSE IF f.kind # "odt" THEN Traceback(Dialog(c1, "critical", "Erreur", "load_odt"))
       ELSE Status(c2, "odt ouvert")

----------------------------------------------------------------------------
\* VoiceRecognitionThread and TextToSpeechThread

\* self.voice_thread = None; self.tts_thread = None.  A thread object is known
\* by its number, 0 is None; `threads` are the threads between start() and the
\* return of run(), `queue` the signals emitted and not yet handled.
NewSpeech(sr, tts) ==
    [SPEECH_RECOGNITION_AVAILABLE |-> sr, TEXT_TO_SPEECH_AVAILABLE |-> tts,
     voice_thread |-> 0, tts_thread |-> 0, threads |-> {}, queue |-> <<>>, next |-> 1]

\* A variant in which no thread is ever seen running.
NeverRunning(sp, thread) == FALSE

\* `self.voice_thread and self.voice_thread.isRunning()`
IsRunning(sp, thread) == thread # 0 /\ \E t \in sp.threads : t.id = thread

\* thread.wait(): the caller blocks until run() has returned.
Wait(sp, thread) == [sp EXCEPT !.threads = {t \in @ : t.id # thread}]

\* The end of closeEvent: stop() and wait() on the threads still running.
WaitThreads(sp) ==
    LET sp1 == IF IsRunning(sp, sp.voice_thread) THEN Wait(sp, sp.voice_thread) ELSE sp
    IN IF IsRunning(sp1, sp1.tts_thread) THEN Wait(sp1, sp1.tts_thread) ELSE sp1

----------------------------------------------------------------------------
\* The handlers of the main window

\* QTextEdit.setHtml / setPlainText: empty content clears the document, and
\* with it the resources; other content replaces the document only.
SetContent(c, text, d) ==
    IF text = <<>> THEN [c EXCEPT !.doc = EmptyDoc, !.resources = NoResources]
    ELSE [c EXCEPT !.doc = d]

\* What a handler hands back: its working state and its return value.
Ret(c, v) == [c |-> c, ret |-> v]

\* The if/elif chain of save_to_file: the codec that writes the file.
SaveCodec(filename) ==
    IF EndsWith(filename, ".olc") THEN "olc"
    ELSE IF EndsWith(filename, ".docx") THEN "docx"
    ELSE IF EndsWith(filename, ".odt") THEN "odt"
    ELSE IF EndsWith(filename, ".html") THEN "html"
    ELSE "text"

\* The if/elif chain of open_file: the codec that reads the file.
OpenCodec(filename) ==
    IF EndsWith(filename, ".docx") THEN "docx"
    ELSE IF EndsWith(filename, ".odt") THEN "odt"
    ELSE IF EndsWith(filename, ".html") \/ EndsWith(filename, ".htm") THEN "html"
    ELSE IF EndsWith(filename, ".olc") THEN "olc"
    ELSE "text"

SaveToFile(c, filename) ==
    LET Done(cc) ==
            Ret(Status([cc EXCEPT !.current_file = filename, !.is_modified = FALSE],
                       "Fichier enregistre"), TRUE)
        codec == SaveCodec(filename)
    IN IF codec = "olc" THEN Done(SaveAsOlc(c, filename))
       ELSE IF codec = "docx" THEN Done(SaveAsDocx(c, filename))
       ELSE IF codec = "odt" THEN Done(SaveAsOdt(c, filename))
       ELSE IF codec = "html" THEN Done(SaveAsHtml(c, filename))
       ELSE IF ~writable
       THEN Ret(Dialog(IO(c, "open", filename, 0), "critical", "Erreur", "save_to_file"),
                FALSE)
       ELSE Done(WriteFile(c, filename, <<ToPlainText(c.doc)>>))

\* save_file_as: `name` is what the save dialog returned, "" when cancelled.
SaveFileAs(c, name) == IF name # "" THEN SaveToFile(c, name) ELSE Ret(c, FALSE)

SaveFile(c, name) ==
    IF c.current_file # "" THEN SaveToFile(c, c.current_file) ELSE SaveFileAs(c, name)

\* maybe_save: `reply` is the button of the question box.
MaybeSave(c, reply, name) ==
    LET c1 == Dialog(c, "question", "Document modifie", "enregistrer")
    IN IF ~c.is_modified THEN Ret(c, TRUE)
       ELSE IF reply = "Save" THEN SaveFile(c1, name)
       ELSE IF reply = "Cancel" THEN Ret(c1, FALSE)
       ELSE Ret(c1, TRUE)

\* The try block of open_file for a chosen filename.
OpenChosen(c, filename) ==
    LET Opened(cc) ==
            Status([cc EXCEPT !.current_file = filename, !.is_modified = FALSE],
                   "Fichier ouvert")
        Failed(cc) == Dialog(cc, "critical", "Erreur", "open_file")
        t == ReadText(c, filename)
        codec == OpenCodec(filename)
    IN IF codec = "docx" THEN Opened(LoadDocx(c, filename))
       ELSE IF codec = "odt" THEN Opened(LoadOdt(c, filename))
       ELSE IF codec = "html"
       THEN IF t.ok THEN Opened(SetContent(t.c, t.content, FromHtml(t.content)))
            ELSE Failed(t.c)
       ELSE IF codec = "olc" THEN Opened(LoadOlc(c, filename))
       ELSE IF t.ok THEN Opened(SetContent(t.c, t.content, FromPlainText(t.content)))
       ELSE Failed(t.c)

\* The state after a handler has run.
CommitWindow(c) ==
    /\ doc' = c.doc
    /\ resources' = c.resources
    /\ current_file' = c.current_file
    /\ is_modified' = c.is_modified
    /\ fs' = c.fs
    /\ dialogs' = c.dialogs
    /\ io' = c.io
    /\ status' = c.status
    /\ saved' = c.saved
    /\ clock' = clock + 1
    /\ UNCHANGED <<writable, DOCX_AVAILABLE, ODT_AVAILABLE, id_reuse, settings, timer>>

\* The state after a handler that leaves the speech threads alone.
Commit(c) == CommitWindow(c) /\ UNCHANGED speech

Last(op, filename, saveTo, ms, ret) ==
    [op |-> op, filename |-> filename, saveTo |-> saveTo, ms |-> ms, ret |-> ret]

\* The file save_file writes to: the current file, else the dialog's answer.
SaveTarget(c, name) == IF c.current_file # "" THEN c.current_file ELSE name

\* The file maybe_save saves to, "" when it saves nothing.
MaybeSaveTarget(reply, name) ==
    IF is_modified /\ reply = "Save" THEN SaveTarget(Ctx, name) ELSE ""

Replies == {"Save", "Discard", "Cancel"}

\* The answers a handler asks for: the question box is shown for a modified
\* document only, the save dialog only when Save was chosen and there is no
\* current file.
Asked(reply, name) ==
    /\ is_modified \/ reply = "Discard"
    /\ name = "" \/ (is_modified /\ reply = "Save" /\ current_file = "")

\* The window takes events until closeEvent has accepted; the number of
\* operations of a run is bounded.
Running == clock < MaxOps /\ last.ret # "accept"

new_document(reply, name) ==
    LET ms == MaybeSave(Ctx, reply, name)
    IN /\ Running
       /\ Asked(reply, name)
       /\ Commit(IF ms.ret
                 THEN Status([ms.c EXCEPT !.doc = EmptyDoc, !.resources = NoResources,
                                          !.current_file = "", !.is_modified = FALSE],
                             "Nouveau document")
                 ELSE ms.c)
       /\ last' = Last("new_document", "", MaybeSaveTarget(reply, name), ms.ret, "None")

\* The open dialog returns an existing file, or "" when cancelled.
open_file(reply, name, filename) ==
    LET ms == MaybeSave(Ctx, reply, name)
    IN /\ Running
       /\ Asked(reply, name)
       /\ filename # "" => ms.ret /\ FileOf(ms.c.fs, filename).kind # "none"
       /\ Commit(IF ms.ret /\ filename # "" THEN OpenChosen(ms.c, filename) ELSE ms.c)
       /\ last' = Last("open_file", IF ms.ret THEN filename ELSE "",
                       MaybeSaveTarget(reply, name), ms.ret, "None")

save_file(name) ==
    LET r == SaveFile(Ctx, name)
    IN /\ Running
       /\ name = "" \/ current_file = ""
       /\ Commit(r.c)
       /\ last' = Last("save_file", "", SaveTarget(Ctx, name), TRUE,
                       IF r.ret THEN "True" ELSE "False")

save_file_as(name) ==
    LET r == SaveFileAs(Ctx, name)
    IN /\ Running
       /\ Commit(r.c)
       /\ last' = Last("save_file_as", "", name, TRUE, IF r.ret THEN "True" ELSE "False")

\* closeEvent: the event is accepted, and the window with its document goes
\* away, when maybe_save lets it.
closeEvent(reply, name) ==
    LET ms == MaybeSave(Ctx, reply, name)
    IN /\ Running
       /\ Asked(reply, name)
       /\ CommitWindow(ms.c)
       /\ speech' = IF ms.ret THEN WaitThreads(speech) ELSE speech
       /\ last' = Last("closeEvent", "", MaybeSaveTarget(reply, name), ms.ret,
                       IF ms.ret THEN "accept" ELSE "ignore")

\* The editing surface changes the document; textChanged calls document_modified.
document_modified(d) ==
    /\ Running
    /\ d # doc
    /\ Commit([Ctx EXCEPT !.doc = d, !.is_modified = TRUE])
    /\ last' = Last("document_modified", "", "", TRUE, "None")

\* insert_image: `file_path` is the chosen file and `image` what QImage reads from it.
insert_image(file_path, image) ==
    LET scaled == IF image.w > 500
                  THEN [image EXCEPT !.w = 500, !.h = (image.h * 500) \div image.w]
                  ELSE image
        c == Ctx
    IN /\ Running
       /\ NumImages(doc) < MaxImages
       /\ Commit(IF image = NullImage THEN c
                 ELSE [c EXCEPT !.resources = AddResource(@, file_path, scaled),
                                !.doc = InsertAtEnd(@, ImageRun(file_path, scaled.w, scaled.h)),
                                !.is_modified = TRUE])
       /\ last' = Last("insert_image", "", "", TRUE, "None")

----------------------------------------------------------------------------
\* Dictation and reading aloud

\* "[Ecoute en cours...]"
Listening == <<91>>

CommitSpeech(c, sp, op) ==
    /\ doc' = c.doc
    /\ is_modified' = c.is_modified
    /\ dialogs' = c.dialogs
    /\ status' = c.status
    /\ speech' = sp
    /\ last' = Last(op, "", "", TRUE, "None")
    /\ UNCHANGED <<resources, current_file, fs, writable, DOCX_AVAILABLE, ODT_AVAILABLE,
                   id_reuse, clock, io, saved, settings, timer>>

\* The window is open.
Open == last.ret # "accept"

\* A new thread object of that kind, started.
StartThread(sp, kind) ==
    [sp EXCEPT !.threads = @ \cup {[kind |-> kind, id |-> sp.next, pc |-> "started"]},
               !.next = @ + 1]

start_dictation ==
    /\ Open
    /\ IF ~speech.SPEECH_RECOGNITION_AVAILABLE
       THEN CommitSpeech(Dialog(Ctx, "warning", "Fonction non disponible", "dictee"),
                         speech, "start_dictation")
       ELSE IF IsRunning(speech, speech.voice_thread)
       THEN CommitSpeech(Dialog(Ctx, "warning", "Dictee en cours", "deja en cours"),
                         speech, "start_dictation")
       ELSE /\ speech.next <= MaxThreads
            /\ CommitSpeech(Status(Ctx, "Dictee vocale activee"),
                            [StartThread(speech, "voice") EXCEPT !.voice_thread = speech.next],
                            "start_dictation")

\* text.strip(): the text without blanks at its ends is empty.
Blank(text) == \A k \in 1..Len(text) : text[k] \in {10, 32}

read_text_aloud ==
    /\ Open
    /\ IF ~speech.TEXT_TO_SPEECH_AVAILABLE
       THEN CommitSpeech(Dialog(Ctx, "warning", "Fonction non disponible", "lecture"),
                         speech, "read_text_aloud")
       ELSE IF Blank(ToPlainText(doc))
       THEN CommitSpeech(Dialog(Ctx, "information", "Rien a lire", "vide"),
                         speech, "read_text_aloud")
       ELSE IF IsRunning(speech, speech.tts_thread)
       THEN CommitSpeech(Dialog(Ctx, "warning", "Lecture en cours", "deja en cours"),
                         speech, "read_text_aloud")
       ELSE /\ speech.next <= MaxThreads
            /\ CommitSpeech(Status(Ctx, "Lecture vocale en cours"),
                            [StartThread(speech, "tts") EXCEPT !.tts_thread = speech.next],
                            "read_text_aloud")

Emit(sp, sig, arg) == [sp EXCEPT !.queue = Append(@, [sig |-> sig, arg |-> arg])]

\* run() returns.
Finish(sp, t) == [sp EXCEPT !.threads = @ \ {t}]

\* VoiceRecognitionThread.run, a step of thread t: the microphone opens and the
\* thread listens, then `outcome` is what listening and recognition give.
voice_run(t, outcome) ==
    /\ Open
    /\ t \in speech.threads
    /\ t.kind = "voice"
    /\ IF outcome = "exception"
       THEN CommitSpeech(Ctx, Finish(Emit(speech, "error_occurred", <<69>>), t), "voice_run")
       ELSE IF t.pc = "started"
       THEN CommitSpeech(Ctx,
                [Emit(speech, "text_recognized", Listening) EXCEPT
                    !.threads = (@ \ {t}) \cup {[t EXCEPT !.pc = "listening"]}],
                "voice_run")
       ELSE IF outcome = "text"
       THEN CommitSpeech(Ctx, Finish(Emit(speech, "text_recognized", <<100>>), t),
                         "voice_run")
       ELSE CommitSpeech(Ctx, Finish(Emit(speech, "error_occurred", <<73>>), t), "voice_run")

\* TextToSpeechThread.run: the engine speaks the text, or raises.
tts_run(t, outcome) ==
    /\ Open
    /\ t \in speech.threads
    /\ t.kind = "tts"
    /\ CommitSpeech(Ctx,
          Finish(IF outcome = "exception" THEN Emit(speech, "tts_error", <<69>>)
                 ELSE Emit(speech, "finished_speaking", <<>>), t),
          "tts_run")

\* The event loop hands the oldest signal to its slot: on_voice_recognized,
\* on_voice_error, on_speaking_finished or on_tts_error.
deliver_signal ==
    LET s  == Head(speech.queue)
        sp == [speech EXCEPT !.queue = Tail(@)]
        c  == Ctx
    IN /\ Open
       /\ speech.queue # <<>>
       /\ IF s.sig = "text_recognized"
          THEN IF s.arg # Listening
               THEN CommitSpeech(
                       Status([c EXCEPT !.doc = InsertAtEnd(@, TextRun(s.arg \o <<32>>, FALSE,
                                                            FALSE, FALSE, Black, <<>>)),
                                        !.is_modified = TRUE],
                              "Texte dicte ajoute"),
                       sp, "on_voice_recognized")
               ELSE CommitSpeech(Status(c, "Ecoute en cours"), sp, "on_voice_recognized")
          ELSE IF s.sig = "error_occurred"
          THEN CommitSpeech(Dialog(Status(c, "Erreur"), "warning", "Erreur de dictee", "erreur"),
                            sp, "on_voice_error")
          ELSE IF s.sig = "finished_speaking"
          THEN CommitSpeech(Status(c, "Lecture vocale terminee"), sp, "on_speaking_finished")
          ELSE CommitSpeech(Dialog(Status(c, "Erreur"), "warning", "Erreur de lecture",
                                   "erreur"),
                            sp, "on_tts_error")

----------------------------------------------------------------------------
\* Settings and SettingsDialog

\* Settings.DEFAULT_SETTINGS; "None" is None.
DEFAULT_SETTINGS ==
    [language_recognition |-> "fr-FR", language_speech |-> "fr-FR",
     spellcheck_enabled |-> TRUE, spellcheck_language |-> "fr",
     exam_mode |-> FALSE, exam_password_hash |-> "None", exam_password_salt |-> "None"]

\* Settings.LANGUAGES, two of its four entries.
LANGUAGES ==
    [Francais |-> [recognition |-> "fr-FR", speech |-> "fr-FR", spellcheck |-> "fr"],
     English  |-> [recognition |-> "en-US", speech |-> "en-US", spellcheck |-> "en"]]

LanguageNames == {"Francais", "English"}

\* The password verify_exam_password falls back to.
DefaultPassword == "se4fs!f7R3sok!YbnwJlf2R"

\* What secrets.token_hex(32) can return.
Salts == {"s1", "s2"}

\* _hash_password: the digest of password + salt, and the salt.
HashPassword(password, salt) ==
    [hash |-> <<"sha256", password, salt>>, salt |-> salt]

SettingsKeys ==
    <<"language_recognition", "language_speech", "spellcheck_enabled",
      "spellcheck_language", "exam_mode", "exam_password_hash", "exam_password_salt">>

\* json.dump(self.settings, f): the keys and values of the dictionary.
JsonDump(d) == [k \in 1..Len(SettingsKeys) |-> <<SettingsKeys[k], d[SettingsKeys[k]]>>]

\* settings = DEFAULT_SETTINGS.copy(); settings.update(loaded)
RECURSIVE Update(_, _)
Update(d, pairs) ==
    IF pairs = <<>> THEN d
    ELSE Update([d EXCEPT ![Head(pairs)[1]] = Head(pairs)[2]], Tail(pairs))

NoSettingsFile == <<>>

\* Settings.load_settings: the defaults when there is no settings file.
LoadSettings(file) ==
    IF file = NoSettingsFile THEN DEFAULT_SETTINGS ELSE Update(DEFAULT_SETTINGS, file)

\* Settings(): no settings file yet, the dialog closed.
NewSettings ==
    [settings |-> LoadSettings(NoSettingsFile), file |-> NoSettingsFile, open |-> FALSE]

\* The working state of a handler of the dialog.
SettingsCtx == [settings |-> settings.settings, file |-> settings.file,
                open |-> settings.open, dialogs |-> <<>>]

\* print(...)
Console(c, text) ==
    [c EXCEPT !.dialogs = Append(@, [icon |-> "log", title |-> "console", text |-> text])]

\* QInputDialog.getText: the text typed, and whether OK closed the box.
Input(c, title, ok, text) ==
    [c EXCEPT !.dialogs = Append(@, [icon |-> IF ok THEN "input" ELSE "input-cancel",
                                      title |-> title, text |-> text])]

\* Settings.save_settings: `disk_ok` is whether the file can be written.
SaveSettings(c, disk_ok) ==
    IF disk_ok THEN Ret([c EXCEPT !.file = JsonDump(c.settings)], TRUE)
    ELSE Ret(Console(c, "Erreur lors de la sauvegarde"), FALSE)

\* Settings.verify_exam_password: `salt` is the salt drawn when none is stored.
VerifyExamPassword(c, password, salt, disk_ok) ==
    LET d == c.settings
        default == HashPassword(DefaultPassword, salt)
        c1 == IF d.exam_password_hash = "None" \/ d.exam_password_salt = "None"
              THEN SaveSettings([c EXCEPT !.settings.exam_password_hash = default.hash,
                                          !.settings.exam_password_salt = default.salt],
                                disk_ok).c
              ELSE c
        provided == HashPassword(password, c1.settings.exam_password_salt)
    IN Ret(c1, provided.hash = c1.settings.exam_password_hash)

\* Settings.set_exam_password
SetExamPassword(c, new_password, salt, disk_ok) ==
    LET h == HashPassword(new_password, salt)
    IN SaveSettings([c EXCEPT !.settings.exam_password_hash = h.hash,
                              !.settings.exam_password_salt = h.salt], disk_ok).c

\* self.accept(): dialog.exec_() returns and open_settings reads the settings
\* file again.
Accept(c) == [c EXCEPT !.open = FALSE, !.settings = LoadSettings(c.file)]

CommitSettings(c, op) ==
    /\ clock < MaxClicks
    /\ settings' = [settings |-> c.settings, file |-> c.file, open |-> c.open]
    /\ dialogs' = c.dialogs
    /\ last' = Last(op, "", "", TRUE, "None")
    /\ clock' = clock + 1
    /\ UNCHANGED <<doc, resources, current_file, is_modified, fs, writable, DOCX_AVAILABLE,
                   ODT_AVAILABLE, id_reuse, io, status, saved, timer, speech>>

\* An input box that was cancelled hands back no text.
Typed(ok, text) == ok \/ text = ""

\* open_settings, up to dialog.exec_()
open_settings ==
    /\ ~settings.open
    /\ CommitSettings([SettingsCtx EXCEPT !.open = TRUE], "open_settings")

\* The dialog is closed without accept(); open_settings reads the file again.
reject_settings ==
    /\ settings.open
    /\ CommitSettings(Accept(SettingsCtx), "reject")

toggle_exam_mode(ok, pwd, salt, disk_ok) ==
    LET c0 == Input(SettingsCtx, "Mode Examen", ok, pwd)
        current_mode == c0.settings.exam_mode
        v == VerifyExamPassword(c0, pwd, salt, disk_ok)
        new_mode == ~current_mode
        c1 == SaveSettings([v.c EXCEPT !.settings.exam_mode = new_mode], disk_ok).c
    IN /\ settings.open
       /\ Typed(ok, pwd)
       /\ CommitSettings(
             IF ok /\ pwd # ""
             THEN IF v.ret
                  THEN Accept(Dialog(c1, "information", "Mode Examen",
                                     IF new_mode THEN "ACTIVE" ELSE "DESACTIVE"))
                  ELSE Dialog(v.c, "warning", "Erreur", "Mot de passe incorrect")
             ELSE IF ok THEN Dialog(c0, "warning", "Erreur", "vide")
             ELSE c0,
             "toggle_exam_mode")

change_exam_password(ok1, old_pwd, ok2, new_pwd, ok3, confirm_pwd, salt, disk_ok) ==
    LET c0 == Input(SettingsCtx, "Changer le mot de passe", ok1, old_pwd)
        v  == VerifyExamPassword(c0, old_pwd, salt, disk_ok)
        c1 == Input(v.c, "Nouveau mot de passe", ok2, new_pwd)
        c2 == Input(c1, "Confirmer", ok3, confirm_pwd)
    IN /\ settings.open
       /\ Typed(ok1, old_pwd) /\ Typed(ok2, new_pwd) /\ Typed(ok3, confirm_pwd)
       /\ (ok1 /\ old_pwd # "" /\ v.ret) \/ (~ok2 /\ new_pwd = "")
       /\ (ok1 /\ old_pwd # "" /\ v.ret /\ ok2 /\ new_pwd # "") \/ (~ok3 /\ confirm_pwd = "")
       /\ CommitSettings(
             IF ok1 /\ old_pwd # ""
             THEN IF v.ret
                  THEN IF ok2 /\ new_pwd # ""
                       THEN IF ok3 /\ confirm_pwd # ""
                            THEN IF new_pwd = confirm_pwd
                                 THEN Dialog(SetExamPassword(c2, new_pwd, salt, disk_ok),
                                             "information", "Succes", "modifie")
                                 ELSE Dialog(c2, "warning", "Erreur", "ne correspondent pas")
                            ELSE c2
                       ELSE Dialog(c1, "warning", "Erreur", "nouveau vide")
                  ELSE Dialog(v.c, "warning", "Erreur", "Ancien mot de passe incorrect")
             ELSE c0,
             "change_exam_password")

reset_settings(reply, disk_ok) ==
    LET c0 == Dialog(SettingsCtx, "question", "Reinitialisation", "reinitialiser")
        c1 == SaveSettings([c0 EXCEPT !.settings = DEFAULT_SETTINGS], disk_ok).c
    IN /\ settings.open
       /\ CommitSettings(
             IF reply = "Yes"
             THEN Accept(Dialog(c1, "information", "Reinitialisation", "reinitialises"))
             ELSE c0,
             "reset_settings")

\* SettingsDialog.save_settings: the choices of the combo boxes and the check box.
save_settings(recog_lang, speech_lang, spellcheck, spell_lang, disk_ok) ==
    LET c0 == SettingsCtx
        c1 == [c0 EXCEPT
                 !.settings.language_recognition = LANGUAGES[recog_lang].recognition,
                 !.settings.language_speech = LANGUAGES[speech_lang].speech,
                 !.settings.spellcheck_enabled = spellcheck,
                 !.settings.spellcheck_language = LANGUAGES[spell_lang].spellcheck]
        r == SaveSettings(c1, disk_ok)
    IN /\ settings.open
       /\ CommitSettings(
             IF r.ret THEN Accept(Dialog(r.c, "information", "Succes", "enregistres"))
             ELSE Dialog(r.c, "warning", "Erreur", "Impossible d'enregistrer"),
             "save_settings")

----------------------------------------------------------------------------
\* TimerDialog: the countdown and the stopwatch share timer, remaining_seconds
\* and is_running

\* TimerDialog.__init__ and init_ui
NewTimerDialog ==
    [remaining_seconds |-> 0, total_seconds |-> 0, is_running |-> FALSE,
     active |-> FALSE,          \* self.timer.isActive()
     tab |-> 0,                 \* self.tabs.currentIndex()
     spins_enabled |-> TRUE,
     start_enabled |-> TRUE, pause_enabled |-> FALSE, pause_text |-> "Pause",
     stopwatch_start_enabled |-> TRUE, stopwatch_pause_enabled |-> FALSE,
     stopwatch_pause_text |-> "Pause"]

CommitTimer(t, ds, op) ==
    /\ timer' = t
    /\ dialogs' = ds
    /\ last' = Last(op, "", "", TRUE, "None")
    /\ UNCHANGED <<doc, resources, current_file, is_modified, fs, writable, DOCX_AVAILABLE,
                   ODT_AVAILABLE, id_reuse, clock, io, status, saved, settings, speech>>

Box(icon, title, text) == [icon |-> icon, title |-> title, text |-> text]

\* reset_timer as a function of the dialog
ResetTimer(t) ==
    [t EXCEPT !.active = FALSE, !.is_running = FALSE, !.remaining_seconds = 0,
              !.spins_enabled = TRUE, !.start_enabled = TRUE, !.pause_enabled = FALSE,
              !.pause_text = "Pause"]

\* The user picks the other tab.
switch_tab ==
    /\ timer.tab \in {0, 1}
    /\ CommitTimer([timer EXCEPT !.tab = 1 - @], <<>>, "switch_tab")

\* start_timer: `duration` is what the spin boxes hold, in seconds.
start_timer(duration) ==
    /\ timer.tab = 0
    /\ timer.start_enabled
    /\ IF ~timer.is_running
       THEN IF duration = 0
            THEN CommitTimer([timer EXCEPT !.total_seconds = 0],
                             <<Box("warning", "Erreur", "duree superieure a 0")>>,
                             "start_timer")
            ELSE CommitTimer([timer EXCEPT !.total_seconds = duration,
                                           !.remaining_seconds = duration,
                                           !.is_running = TRUE, !.active = TRUE,
                                           !.spins_enabled = FALSE,
                                           !.start_enabled = FALSE,
                                           !.pause_enabled = TRUE],
                             <<>>, "start_timer")
       ELSE CommitTimer(timer, <<>>, "start_timer")

pause_timer ==
    /\ timer.tab = 0
    /\ timer.pause_enabled
    /\ CommitTimer(IF timer.is_running
                   THEN [timer EXCEPT !.active = FALSE, !.is_running = FALSE,
                                      !.pause_text = "Reprendre", !.start_enabled = TRUE]
                   ELSE [timer EXCEPT !.active = TRUE, !.is_running = TRUE,
                                      !.pause_text = "Pause", !.start_enabled = FALSE],
                   <<>>, "pause_timer")

reset_timer ==
    /\ timer.tab = 0
    /\ CommitTimer(ResetTimer(timer), <<>>, "reset_timer")

\* update_timer: the QTimer fires, once a second while it is active.
update_timer ==
    /\ timer.active
    /\ IF timer.tab = 0
       THEN IF timer.remaining_seconds > 0
            THEN CommitTimer([timer EXCEPT !.remaining_seconds = @ - 1], <<>>,
                             "update_timer")
            ELSE CommitTimer(ResetTimer(timer),
                             <<Box("information", "Temps ecoule", "termine")>>,
                             "update_timer")
       ELSE /\ timer.remaining_seconds < MaxSeconds
            /\ CommitTimer([timer EXCEPT !.remaining_seconds = @ + 1], <<>>, "update_timer")

start_stopwatch ==
    /\ timer.tab = 1
    /\ timer.stopwatch_start_enabled
    /\ CommitTimer(IF ~timer.is_running
                   THEN [timer EXCEPT !.is_running = TRUE, !.active = TRUE,
                                      !.stopwatch_start_enabled = FALSE,
                                      !.stopwatch_pause_enabled = TRUE]
                   ELSE timer,
                   <<>>, "start_stopwatch")

pause_stopwatch ==
    /\ timer.tab = 1
    /\ timer.stopwatch_pause_enabled
    /\ CommitTimer(IF timer.is_running
                   THEN [timer EXCEPT !.active = FALSE, !.is_running = FALSE,
                                      !.stopwatch_pause_text = "Reprendre",
                                      !.stopwatch_start_enabled = TRUE]
                   ELSE [timer EXCEPT !.active = TRUE, !.is_running = TRUE,
                                      !.stopwatch_pause_text = "Pause",
                                      !.stopwatch_start_enabled = FALSE],
                   <<>>, "pause_stopwatch")

reset_stopwatch ==
    /\ timer.tab = 1
    /\ CommitTimer([timer EXCEPT !.active = FALSE, !.is_running = FALSE,
                                 !.remaining_seconds = 0,
                                 !.stopwatch_start_enabled = TRUE,
                                 !.stopwatch_pause_enabled = FALSE,
                                 !.stopwatch_pause_text = "Pause"],
                   <<>>, "reset_stopwatch")

----------------------------------------------------------------------------
\* The inputs: what the user types and inserts, and the files on disk at start

DocA ==
    << Block("left", <<TextRun(<<72>>, TRUE, FALSE, FALSE, <<255, 0, 0>>, <<>>),
                       TextRun(<<32, 119>>, FALSE, FALSE, FALSE, Black, <<>>)>>) >>

DocB ==
    << Block("center", <<TextRun(<<76>>, FALSE, FALSE, FALSE, <<0, 128, 0>>, <<117>>)>>),
       Block("left", <<TextRun(<<119>>, FALSE, FALSE, FALSE, Black, <<>>)>>) >>

EditDocs == {DocA, DocB}

ImagePaths == {<<112>>, <<113>>}

DiskImages == {[w |-> 40, h |-> 30, px |-> 1], [w |-> 1000, h |-> 500, px |-> 2], NullImage}

ExtDoc == InsertAtEnd(DocA, ImageRun(<<113>>, 40, 30))

ExtRes == AddResource(NoResources, <<113>>, [w |-> 40, h |-> 30, px |-> 3])

ExtOlc == Concat(OlcChunks(ExtDoc, ExtRes, 0))

\* Two blocks with five fragments, one of them an image 1000 px wide.
WideDoc ==
    << Block("left", <<TextRun(<<72>>, TRUE, FALSE, FALSE, <<255, 0, 0>>, <<>>),
                       TextRun(<<32, 119>>, FALSE, FALSE, FALSE, Black, <<>>),
                       ImageRun(<<113>>, 1000, 500)>>),
       Block("center", <<TextRun(<<76>>, FALSE, FALSE, FALSE, <<0, 128, 0>>, <<117>>),
                         TextRun(<<120>>, FALSE, TRUE, FALSE, Black, <<>>)>>) >>

WideRes == AddResource(NoResources, <<113>>, [w |-> 1000, h |-> 500, px |-> 4])

\* A well-framed version 1.0 container around the given payload.
Framed(payload) == Magic \o PackedOne \o PackQ(Len(payload)) \o payload

BadImageSnapshot ==
    [Snapshot(ExtDoc, ExtRes, 0) EXCEPT
        !.images = Append(@, [name |-> <<112>>, t |-> 3, blob |-> <<>>])]

InitialFile(n) ==
    CASE n = "v1.olc"        -> BytesFile(ExtOlc)
      [] n = "v2.olc"        -> BytesFile(Magic \o PackedTwo \o Drop(ExtOlc, 8))
      [] n = "badmagic.olc"  -> BytesFile(<<79, 76, 88, 33>> \o Drop(ExtOlc, 4))
      [] n = "trunc.olc"     -> BytesFile(Take(ExtOlc, Len(ExtOlc) - 2))
      [] n = "huge.olc"      -> BytesFile(Take(ExtOlc, 8) \o <<0, 0, 0, 0, 0, 0, 0, 128>>
                                          \o Drop(ExtOlc, 16))
      [] n = "badgzip.olc"   -> BytesFile(Take(ExtOlc, Len(ExtOlc) - 2)
                                          \o <<(ExtOlc[Len(ExtOlc) - 1] + 1) % 251,
                                               ExtOlc[Len(ExtOlc)]>>)
      [] n = "badpickle.olc" -> BytesFile(Framed(Gzip(<<128, 9, 9>>)))
      [] n = "badimage.olc"  -> BytesFile(Framed(Gzip(Pickle(BadImageSnapshot))))
      [] n = "short.olc"     -> BytesFile(Magic \o <<0, 0>>)
      [] n = "wide.olc"      -> BytesFile(Concat(OlcChunks(WideDoc, WideRes, 0)))
      [] n = "ext.docx"      ->
            DocxFile(<< DocxPara("center",
                           <<DocxElem("run", <<65>>, TRUE, FALSE, FALSE, Black, <<>>, 0, 0)>>,
                           FALSE),
                        DocxPara("left",
                           <<DocxElem("run", <<98>>, FALSE, TRUE, FALSE, <<>>, <<>>, 0, 0)>>,
                           FALSE) >>)
      [] n = "badpara.docx"  ->
            DocxFile(<< DocxPara("none",
                           <<DocxElem("run", <<65>>, FALSE, FALSE, FALSE, Black, <<>>, 0, 0)>>,
                           FALSE),
                        DocxPara("none", <<>>, TRUE) >>)
      [] n = "ext.odt"       ->
            OdtFile(<< OdtPara("h", <<OdtElem("span", <<84>>, <<"T", 1>>, <<>>, 0, 0)>>),
                       OdtPara("p", <<OdtElem("text", <<120>>, <<>>, <<>>, 0, 0),
                                      OdtElem("span", <<121>>, <<"T", 2>>, <<>>, 0, 0),
                                      OdtElem("span", <<122>>, <<"T", 9>>, <<>>, 0, 0)>>) >>,
                    << OdtStyle(<<"T", 1>>, TRUE, FALSE, FALSE, Black),
                       OdtStyle(<<"T", 2>>, FALSE, TRUE, FALSE, <<>>) >>)
      [] n = "ext.html"      -> BytesFile(ToHtml(DocB))
      [] n = "ext.txt"       -> BytesFile(<<72, 10, 105>>)
      [] n \in {"garbage.docx", "garbage.odt"} -> BytesFile(<<1, 2>>)
      [] n \in {"bad.html", "bad.txt"} -> BytesFile(<<72, BadByte>>)
      [] OTHER -> NoFile

NoSave == [doc |-> <<>>, at |-> -1]

\* When and from what the program last wrote that file, NoSave if it never did.
SavedOf(filename) == IF filename \in DOMAIN saved THEN saved[filename] ELSE NoSave

\* The program starts with an empty document; `present` are the sample files
\* on its disk.
InitWindow(present) ==
    /\ doc = EmptyDoc
    /\ resources = NoResources
    /\ current_file = ""
    /\ is_modified = FALSE
    /\ fs = [n \in present |-> InitialFile(n)]
    /\ writable \in BOOLEAN
    /\ DOCX_AVAILABLE \in BOOLEAN
    /\ ODT_AVAILABLE \in BOOLEAN
    /\ clock = 0
    /\ dialogs = <<>>
    /\ io = <<>>
    /\ status = "Pret"
    /\ last = Last("init", "", "", TRUE, "None")
    /\ saved = << >>
    /\ settings = NewSettings
    /\ timer = NewTimerDialog

\* Both speech modules were imported.
InitWith(present) == InitWindow(present) /\ speech = NewSpeech(TRUE, TRUE)

Next ==
    \/ \E reply \in Replies, name \in SaveNames \cup {""} : new_document(reply, name)
    \/ \E reply \in Replies, name \in SaveNames \cup {""}, filename \in FileNames \cup {""} :
          open_file(reply, name, filename)
    \/ \E name \in SaveNames \cup {""} : save_file(name)
    \/ \E name \in SaveNames \cup {""} : save_file_as(name)
    \/ \E d \in EditDocs : document_modified(d)
    \/ \E file_path \in ImagePaths, image \in DiskImages : insert_image(file_path, image)
    \/ \E reply \in Replies, name \in SaveNames \cup {""} : closeEvent(reply, name)

\* The passwords typed into the input boxes.
Passwords == {"", DefaultPassword, "pw1"}

NextSettings ==
    \/ open_settings
    \/ reject_settings
    \/ \E ok \in BOOLEAN, pwd \in Passwords, salt \in Salts, disk_ok \in BOOLEAN :
          toggle_exam_mode(ok, pwd, salt, disk_ok)
    \/ \E ok1, ok2, ok3 \in BOOLEAN, old_pwd, new_pwd, confirm_pwd \in Passwords,
          salt \in Salts, disk_ok \in BOOLEAN :
          change_exam_password(ok1, old_pwd, ok2, new_pwd, ok3, confirm_pwd, salt, disk_ok)
    \/ \E reply \in {"Yes", "No"}, disk_ok \in BOOLEAN : reset_settings(reply, disk_ok)
    \/ \E recog_lang, speech_lang, spell_lang \in LanguageNames, spellcheck \in BOOLEAN,
          disk_ok \in BOOLEAN :
          save_settings(recog_lang, speech_lang, spellcheck, spell_lang, disk_ok)

NextTimer ==
    \/ switch_tab
    \/ \E duration \in 0..MaxDuration : start_timer(duration)
    \/ pause_timer
    \/ reset_timer
    \/ update_timer
    \/ start_stopwatch
    \/ pause_stopwatch
    \/ reset_stopwatch

\* What listening and recognition, or the speech engine, come to.
Outcomes == {"text", "unknown", "exception"}

ThreadStates ==
    [kind : {"voice", "tts"}, id : 1..MaxThreads, pc : {"started", "listening"}]

NextSpeech ==
    \/ start_dictation
    \/ read_text_aloud
    \/ \E t \in ThreadStates, outcome \in Outcomes : voice_run(t, outcome)
    \/ \E t \in ThreadStates, outcome \in {"text", "exception"} : tts_run(t, outcome)
    \/ deliver_signal
    \/ \E d \in EditDocs : document_modified(d)
    \/ \E reply \in Replies, name \in SaveNames \cup {""} : closeEvent(reply, name)

Init == InitWith({"v2.olc", "ext.docx", "ext.odt"}) /\ id_reuse = FALSE

Spec == Init /\ [][Next]_vars

\* The container reader on the sample containers, with both libraries installed.
InitOlc ==
    InitWith(OlcSamples) /\ DOCX_AVAILABLE /\ ODT_AVAILABLE /\ writable /\ id_reuse = FALSE

SpecOlc == InitOlc /\ [][Next]_vars

\* The loaders of every format on the sample files.
InitLoad ==
    InitWith({"badimage.olc"} \cup DocxSamples \cup OdtSamples \cup HtmlSamples
             \cup TxtSamples) /\ DOCX_AVAILABLE /\ ODT_AVAILABLE /\ writable /\ id_reuse = FALSE

SpecLoad == InitLoad /\ [][Next]_vars

\* The settings dialog alone, the editor left as it started.
InitSettings ==
    InitWith({}) /\ DOCX_AVAILABLE /\ ODT_AVAILABLE /\ writable /\ id_reuse = FALSE

SpecSettings == InitSettings /\ [][NextSettings]_vars

\* Dictation and reading aloud, with the editing of the document.
InitSpeech ==
    /\ InitWindow({})
    /\ DOCX_AVAILABLE /\ ODT_AVAILABLE /\ writable /\ id_reuse = FALSE
    /\ speech \in {NewSpeech(sr, tts) : sr, tts \in BOOLEAN}

SpecSpeech == InitSpeech /\ [][NextSpeech]_vars

\* The timer dialog alone.
SpecTimer == InitSettings /\ [][NextTimer]_vars

\* The QTimer fires again and again while it is active.
SpecTimerFair == SpecTimer /\ WF_vars(update_timer)

\* The exporters on a document with every kind of fragment, under both
\* behaviours of the allocator.
InitExport ==
    InitWith(ExportSamples) /\ DOCX_AVAILABLE /\ ODT_AVAILABLE /\ writable
    /\ id_reuse \in BOOLEAN

SpecExport == InitExport /\ [][Next]_vars

----------------------------------------------------------------------------
\* Properties

HasDialog(ds, icon, title, text) ==
    \E k \in 1..Len(ds) : ds[k] = [icon |-> icon, title |-> title, text |-> text]

\* The program wrote that file in the operation that just ended.
WroteNow(n) == SavedOf(n).at >= 0 /\ SavedOf(n).at = clock - 1

\* The calls of the last operation on that file that read it or ask its size.
ReadsOf(log, n) == SelectSeq(log, LAMBDA e : e.name = n /\ e.call \in {"read", "getsize"})

\* The sizes asked of f.read by the last operation on that file.
ReadSizes(log, n) ==
    LET rs == SelectSeq(log, LAMBDA e : e.name = n /\ e.call = "read")
    IN [k \in 1..Len(rs) |-> rs[k].n]

\* The sizes of the chunks the last operation wrote to that file.
WriteSizes(log, n) ==
    LET ws == SelectSeq(log, LAMBDA e : e.name = n /\ e.call = "write")
    IN [k \in 1..Len(ws) |-> ws[k].n]

\* The last operation touched that file in some way.
Touched(log, n) == \E k \in 1..Len(log) : log[k].name = n

\* The last operation was open_file and it went on to load an .olc file.
OlcOpened == last.op = "open_file" /\ EndsWith(last.filename, ".olc")

\* This step is an open_file that loads file n, which the step did not first
\* overwrite through maybe_save.
Opens(n) ==
    /\ last'.op = "open_file"
    /\ last'.filename = n
    /\ FileOf(fs', n) = FileOf(fs, n)

BytesOf(n) == RawBytes(FileOf(fs, n))

\* The last operation showed the error box of a loader.
LoadErrorShown ==
    \E k \in 1..Len(dialogs) :
        /\ dialogs[k].icon = "critical"
        /\ dialogs[k].text \in {"load_olc", "magic", "truncated", "load_docx",
                                "load_odt", "open_file"}

\* C1: a failing save does not report success: when save_file / save_file_as has
\* a target file and the codec did not write it (it raised, or its library is
\* missing), the handler returns False and leaves is_modified and current_file.
C1_FailingSaveNotReported ==
    [][(/\ last'.op \in {"save_file", "save_file_as"}
        /\ last'.saveTo # ""
        /\ ~(WroteNow(last.saveTo))')
       => (last'.ret = "False" /\ is_modified' = is_modified
           /\ current_file' = current_file)]_vars

\* C2: a failing load leaves the document and its image resources as they were
\* before open_file, whatever the loader.
C2_FailingLoadLeavesModel ==
    [][(last'.op = "open_file" /\ last'.filename # "" /\ LoadErrorShown')
       => (doc' = doc /\ resources' = resources)]_vars

\* The .olc file n does not start with the four bytes 'OLC!'.
BadMagic(n) == EndsWith(n, ".olc") /\ Take(BytesOf(n), 4) # <<79, 76, 67, 33>>

\* C3: load_olc on a file that does not start with the magic 'OLC!' shows the
\* invalid-file error, leaves document and resources unchanged, and reads
\* nothing of the file after the 4 magic bytes.
C3_BadMagicRejected ==
    [][\A n \in DOMAIN fs :
        (Opens(n) /\ BadMagic(n))
        => (/\ HasDialog(dialogs', "critical", "Fichier invalide", "magic")
            /\ doc' = doc
            /\ resources' = resources
            /\ ReadsOf(io', n) = <<[call |-> "read", name |-> n, n |-> 4]>>)]_vars

\* A file without the magic was opened while the editor held text and images.
C3_Witness ==
    /\ OlcOpened
    /\ BadMagic(last.filename)
    /\ HasDialog(dialogs, "critical", "Fichier invalide", "magic")
    /\ resources # NoResources
    /\ doc # EmptyDoc

\* The .olc file n has the magic and a whole 16-byte header.
HeaderRead(n) ==
    /\ EndsWith(n, ".olc")
    /\ Len(BytesOf(n)) >= 16
    /\ Take(BytesOf(n), 4) = <<79, 76, 67, 33>>

VersionField(n) == Take(Drop(BytesOf(n), 4), 4)
LengthField(n) == Take(Drop(BytesOf(n), 8), 8)
PayloadRegion(n) == Drop(BytesOf(n), 16)

\* The length field declares more bytes than the file has after the header.
DeclaredTooLong(n) ==
    QBig(LengthField(n)) \/ UnpackQ(LengthField(n)) > Len(PayloadRegion(n))

\* The framing is valid: the declared payload is there in full.
FramingValid(n) == HeaderRead(n) /\ ~DeclaredTooLong(n)

DeclaredPayload(n) == Take(PayloadRegion(n), UnpackQ(LengthField(n)))

\* C4: load_olc on a file whose length field declares more bytes than remain
\* after the 16-byte header shows the truncation error of the invalid-file
\* handler and leaves the document and the resources unchanged.
C4_TruncationRejected ==
    [][\A n \in DOMAIN fs :
        (Opens(n) /\ HeaderRead(n) /\ DeclaredTooLong(n))
        => (/\ HasDialog(dialogs', "critical", "Fichier invalide", "truncated")
            /\ doc' = doc
            /\ resources' = resources)]_vars

\* What load_olc does in this state with file n's version field set to 1.0
\* and everything else as it is.
AsVersionOne(n) ==
    LET bytes == Take(BytesOf(n), 4) \o <<0, 0, 128, 63>> \o Drop(BytesOf(n), 8)
    IN LoadOlc([Ctx EXCEPT !.fs = (n :> BytesFile(bytes)) @@ fs], n)

\* C5: load_olc on a file whose version field is above 1.0 shows the version
\* warning and then does exactly what it does for the same file at version
\* 1.0: same document, same resources, same error boxes if any.
C5_NewerVersionLoads ==
    [][\A n \in DOMAIN fs :
        (Opens(n) /\ HeaderRead(n) /\ FloatGtOne(VersionField(n)))
        => (/\ HasDialog(dialogs', "warning", "Version recente", "version")
            /\ doc' = AsVersionOne(n).doc
            /\ resources' = AsVersionOne(n).resources
            /\ LoadErrorShown' <=> (AsVersionOne(n).dialogs # <<>>))]_vars

\* A well-formed version 2.0 file was opened over a document with another
\* image: the warning was shown and the file's document is in the editor.
C5_Witness ==
    /\ OlcOpened
    /\ HeaderRead(last.filename)
    /\ FloatGtOne(VersionField(last.filename))
    /\ HasDialog(dialogs, "warning", "Version recente", "version")
    /\ ~LoadErrorShown
    /\ doc = ExtDoc
    /\ <<112>> \in DOMAIN resources

\* The payload of file n fails gzip.decompress or pickle.loads.
PayloadCorrupt(n) ==
    \/ ~Gunzip(DeclaredPayload(n)).ok
    \/ ~Unpickle(Gunzip(DeclaredPayload(n)).data).ok

\* C6: load_olc on a file with valid framing whose payload fails to
\* decompress or to deserialize shows the generic load error and changes
\* neither the document nor the resources.
C6_CorruptPayloadRejected ==
    [][\A n \in DOMAIN fs :
        (Opens(n) /\ FramingValid(n) /\ PayloadCorrupt(n))
        => (/\ HasDialog(dialogs', "critical", "Erreur", "load_olc")
            /\ doc' = doc
            /\ resources' = resources)]_vars

\* A file with a corrupt payload was opened while the editor held content.
C6_Witness ==
    /\ OlcOpened
    /\ FramingValid(last.filename)
    /\ PayloadCorrupt(last.filename)
    /\ HasDialog(dialogs, "critical", "Erreur", "load_olc")
    /\ doc # EmptyDoc
    /\ resources # NoResources

\* C7: after load_olc of a file that save_as_olc wrote from document D, the
\* editor's markup equals D's markup and the resource store holds exactly
\* the image names D references.
C7_OlcRoundTrip ==
    (/\ OlcOpened
     /\ SavedOf(last.filename).at >= 0
     /\ ~LoadErrorShown)
    => (/\ ToHtml(doc) = ToHtml(SavedOf(last.filename).doc)
        /\ DOMAIN resources = ImageRefs(SavedOf(last.filename).doc))

\* The 8 bytes of the length field read as an unsigned integer, least
\* significant byte first.
FieldValue(b) ==
    b[1] + 256 * b[2] + 65536 * b[3] + 16777216 * b[4]

\* C8: a file save_as_olc has just written is the 4 magic bytes, then the
\* 4-byte float 1.0, then an 8-byte length equal to the number of payload
\* bytes, then the payload, written in that order; and load_olc on a file
\* the program wrote asks for 4, 4, 8 and then exactly the payload's length.
C8_WireFormat ==
    /\ \A n \in DOMAIN fs :
         (EndsWith(n, ".olc") /\ WroteNow(n))
         => LET b == BytesOf(n)
            IN /\ Len(b) >= 16
               /\ SubSeq(b, 1, 4) = <<79, 76, 67, 33>>
               /\ SubSeq(b, 5, 8) = <<0, 0, 128, 63>>
               /\ \A k \in 13..16 : b[k] = 0
               /\ FieldValue(SubSeq(b, 9, 16)) = Len(b) - 16
               /\ Gunzip(Drop(b, 16)).ok
               /\ WriteSizes(io, n) = <<4, 4, 8, Len(b) - 16>>
    /\ (OlcOpened /\ SavedOf(last.filename).at >= 0)
       => ReadSizes(io, last.filename) = <<4, 4, 8, Len(BytesOf(last.filename)) - 16>>

\* A file the program wrote as .olc, with an image in it, was opened again.
C8_Witness ==
    /\ OlcOpened
    /\ SavedOf(last.filename).at >= 0
    /\ NumImages(SavedOf(last.filename).doc) > 0
    /\ ReadSizes(io, last.filename) = <<4, 4, 8, Len(BytesOf(last.filename)) - 16>>
    /\ Len(BytesOf(last.filename)) > 16

\* The codec for that file name needs a library that is not installed.
Unavailable(n) ==
    \/ EndsWith(n, ".docx") /\ ~DOCX_AVAILABLE
    \/ EndsWith(n, ".odt") /\ ~ODT_AVAILABLE

MissingModuleShown ==
    \E k \in 1..Len(dialogs) :
        dialogs[k].icon = "warning" /\ dialogs[k].title = "Module manquant"

\* C9: with the library of a format missing, saving to a file of that format
\* shows the missing-module warning and neither opens, creates nor changes
\* the file; loading one shows the warning, opens nothing and leaves the
\* document and the resources unchanged.
C9_MissingLibraryTouchesNothing ==
    [][/\ Unavailable(last'.saveTo)
          => (/\ FileOf(fs', last'.saveTo) = FileOf(fs, last'.saveTo)
              /\ ~Touched(io', last'.saveTo)
              /\ MissingModuleShown')
       /\ Unavailable(last'.filename)
          => (/\ doc' = doc
              /\ resources' = resources
              /\ FileOf(fs', last'.filename) = FileOf(fs, last'.filename)
              /\ ~Touched(io', last'.filename)
              /\ MissingModuleShown')]_vars

\* A save went to an existing file whose library is missing, from a document
\* that has content: the warning was shown and the file was not opened.
C9_Witness ==
    /\ last.op = "save_file"
    /\ Unavailable(last.saveTo)
    /\ FileOf(fs, last.saveTo).kind # "none"
    /\ MissingModuleShown
    /\ ~Touched(io, last.saveTo)
    /\ doc # EmptyDoc


\* The bytes of container n with another plain_text entry and other word and
\* character counts in its snapshot, everything else the same.
WithOtherCache(n) ==
    LET snap == Unpickle(Gunzip(DeclaredPayload(n)).data)
        other == [snap EXCEPT !.plain = <<120>> \o @,
                              !.words = (@ + 1) % 256,
                              !.chars = (@ + 1) % 256]
        payload == Gzip(Pickle(other))
    IN Take(BytesOf(n), 8) \o PackQ(Len(payload)) \o payload

AnyCritical(ds) == \E k \in 1..Len(ds) : ds[k].icon = "critical"

\* What load_olc does in this state with these bytes in file n.
LoadOf(n, bytes) == LoadOlc([Ctx EXCEPT !.fs = (n :> BytesFile(bytes)) @@ fs], n)

\* C11: a container and the same container with a different plain_text entry
\* and different word/char counts load into the same document and the same
\* resources: load_olc builds the document from html_content alone.
C11_PlainTextIgnored ==
    [][\A n \in DOMAIN fs :
        (Opens(n) /\ FramingValid(n) /\ ~PayloadCorrupt(n))
        => (/\ doc' = LoadOf(n, WithOtherCache(n)).doc
            /\ resources' = LoadOf(n, WithOtherCache(n)).resources
            /\ LoadErrorShown' <=> AnyCritical(LoadOf(n, WithOtherCache(n)).dialogs))]_vars

\* A well-formed container was loaded whose plain_text, read as the document,
\* would give another document than the one now in the editor.
C11_Witness ==
    /\ OlcOpened
    /\ FramingValid(last.filename)
    /\ ~PayloadCorrupt(last.filename)
    /\ ~LoadErrorShown
    /\ WithOtherCache(last.filename) # BytesOf(last.filename)
    /\ doc # FromPlainText(Unpickle(Gunzip(DeclaredPayload(last.filename)).data).plain)
    /\ NumImages(doc) > 0


\* The last operation was open_file and load_docx read the file to its end.
DocxLoaded ==
    /\ last.op = "open_file"
    /\ EndsWith(last.filename, ".docx")
    /\ DOCX_AVAILABLE
    /\ FileOf(fs, last.filename).kind = "docx"
    /\ ~LoadErrorShown

LoadedParas == FileOf(fs, last.filename).paras

\* paragraph.text as load_docx sees it: the text of the runs of the paragraph.
ParaText(p) ==
    LET rs == SelectSeq(p.elems, LAMBDA e : e.kind = "run")
    IN Concat([j \in 1..Len(rs) |-> rs[j].text])

BlockText(b) == Concat([j \in 1..Len(b.runs) |-> b.runs[j].text])

\* C12: after load_docx of a file with N paragraphs the document has exactly
\* N blocks, block k holding the text of paragraph k.
C12_OneBlockPerParagraph ==
    DocxLoaded
    => (/\ Len(doc) = Len(LoadedParas)
        /\ \A k \in 1..Len(LoadedParas) : BlockText(doc[k]) = ParaText(LoadedParas[k]))

\* The alignment a paragraph asks for on its own.
OwnAlignment(p) == IF p.align \in {"center", "right", "justify"} THEN p.align ELSE "left"

\* C13: after load_docx the block of every paragraph has the alignment of
\* that paragraph alone: center, right or justify when it says so, left for
\* anything else, whatever the paragraphs before it.
C13_AlignmentPerParagraph ==
    DocxLoaded
    => \A k \in 1..Len(LoadedParas) :
          k <= Len(doc) => doc[k].align = OwnAlignment(LoadedParas[k])


\* The text, bold flag and color of the runs of a document, in order.
RunsOf(d) ==
    LET rs == AllRuns(d)
    IN [j \in 1..Len(rs) |-> <<rs[j].text, rs[j].bold, rs[j].color>>]

\* The document holds text runs only: no image and no hyperlink.
TextOnly(d) ==
    \A j \in 1..Len(AllRuns(d)) : AllRuns(d)[j].kind = "text" /\ AllRuns(d)[j].href = <<>>

\* C14: a document of text runs written by save_as_docx and read back from that
\* file by load_docx has the same runs in the same order, with the same
\* text, bold flag and color.
C14_DocxRoundTrip ==
    (/\ DocxLoaded
     /\ SavedOf(last.filename).at >= 0
     /\ TextOnly(SavedOf(last.filename).doc))
    => RunsOf(doc) = RunsOf(SavedOf(last.filename).doc)

\* A block with a bold red run and a plain run was saved as .docx and that
\* file was loaded: two runs are in the editor.
C14_Witness ==
    /\ DocxLoaded
    /\ SavedOf(last.filename).at >= 0
    /\ TextOnly(SavedOf(last.filename).doc)
    /\ Len(RunsOf(doc)) = 2
    /\ RunsOf(doc)[1] = <<<<72>>, TRUE, <<255, 0, 0>>>>
    /\ RunsOf(doc)[2] = <<<<32, 119>>, FALSE, <<0, 0, 0>>>>


\* The children of all paragraphs of a .docx or .odt file, in order.
ElemsOf(f) == Concat([k \in 1..Len(f.paras) |-> f.paras[k].elems])

\* The hyperlink runs of a document: anchors with a target.
Anchors(d) == SelectSeq(AllRuns(d), LAMBDA r : r.kind = "text" /\ r.href # <<>>)

\* The file n holds what the program wrote from a document, in that format.
Exported(n, kind) == SavedOf(n).at >= 0 /\ FileOf(fs, n).kind = kind

\* C15: in every .docx and .odt file the program wrote, each hyperlink run of
\* the document is there, blue and underlined whatever color and underline
\* flag its format stored: in .docx the run with the link text and the
\* w:hyperlink that follows it, in .odt the style of the link's span.
C15_HyperlinksBlueUnderlined ==
    \A n \in DOMAIN fs :
        /\ Exported(n, "docx")
           => LET es == ElemsOf(fs[n])
                  hs == SelectSeq(es, LAMBDA e : e.kind = "hyperlink")
                  as == Anchors(SavedOf(n).doc)
              IN /\ Len(hs) = Len(as)
                 /\ \A j \in 1..Len(hs) :
                       hs[j].text = as[j].text /\ hs[j].url = as[j].href
                 /\ \A j \in 1..Len(es) :
                       es[j].kind = "hyperlink"
                       => /\ es[j].color = <<0, 0, 255>> /\ es[j].underline
                          /\ j > 1
                          /\ es[j - 1].kind = "run" /\ es[j - 1].text = es[j].text
                          /\ es[j - 1].color = <<0, 0, 255>> /\ es[j - 1].underline
        /\ Exported(n, "odt")
           => LET ls == SelectSeq(ElemsOf(fs[n]), LAMBDA e : e.kind = "link")
                  as == Anchors(SavedOf(n).doc)
              IN /\ Len(ls) = Len(as)
                 /\ \A j \in 1..Len(ls) :
                       /\ ls[j].text = as[j].text /\ ls[j].url = as[j].href
                       /\ \E k \in 1..Len(fs[n].styles) : fs[n].styles[k].name = ls[j].style
                       /\ \A k \in 1..Len(fs[n].styles) :
                             fs[n].styles[k].name = ls[j].style
                             => /\ fs[n].styles[k].color = <<0, 0, 255>>
                                /\ fs[n].styles[k].underline

\* A hyperlink run stored green and not underlined.
GreenAnchor(d) ==
    \E j \in 1..Len(Anchors(d)) :
        Anchors(d)[j].color = <<0, 128, 0>> /\ ~Anchors(d)[j].underline

\* A document with a green hyperlink that is not underlined was written both
\* as .docx and as .odt.
C15_Witness ==
    /\ Exported("b.docx", "docx")
    /\ GreenAnchor(SavedOf("b.docx").doc)
    /\ Exported("c.odt", "odt")
    /\ GreenAnchor(SavedOf("c.odt").doc)


\* The image runs of a document, in order.
Images(d) == SelectSeq(AllRuns(d), LAMBDA r : r.kind = "image")

\* Six inches at 96 px/inch.
SixInches == 6 * 96

Min(a, b) == IF a < b THEN a ELSE b

\* C16: in every .odt file the program wrote, the frame of each image run is
\* min(pixel width / 96, 6) inches wide (frame widths are in 1/96 inch).
C16_OdtFrameClamped ==
    \A n \in DOMAIN fs :
        Exported(n, "odt")
        => LET fr == SelectSeq(ElemsOf(fs[n]), LAMBDA e : e.kind = "frame")
               im == Images(SavedOf(n).doc)
           IN Len(fr) = Len(im)
              => \A j \in 1..Len(fr) : fr[j].w = Min(im[j].w, SixInches)

\* C17: in every .docx file the program wrote, the picture of each image run
\* is min(w / 96, 6) inches wide, and when the width is clamped the height is
\* scaled by the same ratio, h * 6 / (w / 96); otherwise it is h / 96 inches
\* (picture sizes are in 1/96 inch).
C17_DocxPictureClamped ==
    \A n \in DOMAIN fs :
        Exported(n, "docx")
        => LET pc == SelectSeq(ElemsOf(fs[n]), LAMBDA e : e.kind = "picture")
               im == Images(SavedOf(n).doc)
           IN Len(pc) = Len(im)
              => \A j \in 1..Len(pc) :
                    /\ pc[j].w = Min(im[j].w, SixInches)
                    /\ pc[j].h = IF im[j].w > SixInches
                                 THEN (im[j].h * SixInches) \div im[j].w
                                 ELSE im[j].h

\* A document with an image run 1000 px wide, wider than the 500 px that
\* insert_image allows, was written as .docx: its picture is 6 inches wide
\* and 3 inches high.
C17_Witness ==
    /\ Exported("b.docx", "docx")
    /\ \E j \in 1..Len(Images(SavedOf("b.docx").doc)) :
          Images(SavedOf("b.docx").doc)[j].w = 1000
    /\ \E j \in 1..Len(ElemsOf(fs["b.docx"])) :
          LET e == ElemsOf(fs["b.docx"])[j]
          IN e.kind = "picture" /\ e.w = 576 /\ e.h = 288


\* The last operation was open_file on a .docx package python-docx can read
\* to its end.
DocxRead ==
    /\ last.op = "open_file"
    /\ EndsWith(last.filename, ".docx")
    /\ DOCX_AVAILABLE
    /\ FileOf(fs, last.filename).kind = "docx"
    /\ \A k \in 1..Len(LoadedParas) : ~LoadedParas[k].bad

\* The last operation was open_file on an .odt package odfpy can read.
OdtRead ==
    /\ last.op = "open_file"
    /\ EndsWith(last.filename, ".odt")
    /\ ODT_AVAILABLE
    /\ FileOf(fs, last.filename).kind = "odt"

\* The paragraphs and headings in the order load_odt takes them.
LoadedElements ==
    SelectSeq(LoadedParas, LAMBDA p : p.tag = "p")
    \o SelectSeq(LoadedParas, LAMBDA p : p.tag = "h")

LoadedStyles == FileOf(fs, last.filename).styles

\* The text of a paragraph of an .odt file.
OdtParaText(p) ==
    LET es == SelectSeq(p.elems, LAMBDA e : e.kind # "frame")
    IN Concat([j \in 1..Len(es) |-> es[j].text])

\* The styles of that name in the file.
StylesNamed(name) ==
    {LoadedStyles[k] : k \in {j \in 1..Len(LoadedStyles) : LoadedStyles[j].name = name}}

\* Block b has a run with that text and that format.
HasRun(b, t, bold, italic, underline, color) ==
    \E j \in 1..Len(b.runs) :
        /\ b.runs[j].text = t
        /\ b.runs[j].bold = bold
        /\ b.runs[j].italic = italic
        /\ b.runs[j].underline = underline
        /\ b.runs[j].color = color

AttributeLost ==
    \/ /\ DocxRead
       /\ \E k \in 1..Len(LoadedParas) : \E j \in 1..Len(LoadedParas[k].elems) :
             LET e == LoadedParas[k].elems[j]
             IN e.kind = "run" /\ e.text # <<>> /\ Len(e.color) # 3
    \/ /\ OdtRead
       /\ \E k \in 1..Len(LoadedParas) : \E j \in 1..Len(LoadedParas[k].elems) :
             LET e == LoadedParas[k].elems[j]
             IN /\ e.kind = "span"
                /\ e.style # <<>>
                /\ \/ StylesNamed(e.style) = {}
                   \/ \E st \in StylesNamed(e.style) : Len(st.color) # 3

\* The last operation showed a warning or an error box or wrote to the console.
SignalGiven ==
    \E k \in 1..Len(dialogs) : dialogs[k].icon \in {"warning", "critical", "log"}

\* C19: no decoding failure is swallowed in silence: when load_docx or
\* load_odt could not decode an attribute, the caller gets at least one signal,
\* a warning or a log entry, and the import goes on.
C19_NoSilentLoss ==
    AttributeLost => (SignalGiven /\ ~LoadErrorShown)


\* C20: in every .odt file one save_as_odt call wrote, the names of the
\* automatic styles (style_<id>, link_<id>) are pairwise distinct, so each span
\* resolves to the style created for it.
C20_StyleNamesDistinct ==
    \A n \in DOMAIN fs :
        Exported(n, "odt") =>
            \A i, j \in 1..Len(FileOf(fs, n).styles) :
                i # j => FileOf(fs, n).styles[i].name # FileOf(fs, n).styles[j].name


\* C21: after load_odt the blocks are in reading order: block k of the
\* editor holds the text of the k-th paragraph or heading element of the
\* file, headings and paragraphs interleaved as the file has them, each once.
C21_OdtReadingOrder ==
    OdtRead =>
        /\ Len(doc) >= Len(LoadedParas)
        /\ \A k \in 1..Len(LoadedParas) : BlockText(doc[k]) = OdtParaText(LoadedParas[k])


\* C22: new_document, open_file and closeEvent go on past maybe_save with a
\* modified document only when the user chose Discard or when the save
\* maybe_save started wrote the document to its file; when maybe_save stops
\* them, the document and its resources are kept.
C22_ContentKeptOrSaved ==
    [][(is_modified /\ last'.op \in {"new_document", "open_file", "closeEvent"}) =>
          /\ (last'.ms /\ last'.saveTo # "") =>
                /\ last'.saveTo \in DOMAIN saved'
                /\ saved'[last'.saveTo].at = clock
                /\ saved'[last'.saveTo].doc = doc
          /\ ~last'.ms => (doc' = doc /\ resources' = resources)]_vars


\* The last operation showed that the load did not happen: an error box, or
\* the warning of a missing library.
LoadFailedShown == AnyCritical(dialogs) \/ MissingModuleShown

\* C23: open_file on a chosen file sets current_file to it, clears is_modified
\* and reports it opened only when the loader succeeded; after a failed or
\* skipped load current_file, is_modified and the status line are as before.
C23_FailedLoadKeepsCurrentFile ==
    [][(last'.op = "open_file" /\ last'.filename # "" /\ ~is_modified) =>
          IF LoadFailedShown'
          THEN current_file' = current_file /\ is_modified' = is_modified /\ status' = status
          ELSE current_file' = last'.filename /\ ~is_modified']_vars


\* C24: a file the program wrote is reopened with the importer matching the
\* exporter that wrote it: whenever open_file reads a file written by
\* save_to_file, names ending in .htm included, the codec open_file selects for
\* the name is the codec save_to_file selected for it.
C24_SameCodecBothWays ==
    (last.op = "open_file" /\ last.filename # "" /\ SavedOf(last.filename).at >= 0)
        => OpenCodec(last.filename) = SaveCodec(last.filename)


\* The text a paragraph of a .docx file shows: its runs and its hyperlinks.
VisibleText(p) ==
    LET es == SelectSeq(p.elems, LAMBDA e : e.kind \in {"run", "hyperlink"})
    IN Concat([j \in 1..Len(es) |-> es[j].text])

\* The text of the text fragments of a block, hyperlinks included.
FragmentText(b) ==
    LET rs == SelectSeq(b.runs, LAMBDA r : r.kind = "text")
    IN Concat([j \in 1..Len(rs) |-> rs[j].text])

\* C25: in every .docx file the program wrote, paragraph k shows the text of the
\* fragments of block k once and in order, hyperlink fragments included.
C25_DocxTextOnce ==
    \A n \in DOMAIN fs :
        Exported(n, "docx") =>
            /\ Len(fs[n].paras) = Len(SavedOf(n).doc)
            /\ \A k \in 1..Len(fs[n].paras) :
                  VisibleText(fs[n].paras[k]) = FragmentText(SavedOf(n).doc[k])


\* C26: insert_image never changes the blob an image run already in the
\* document resolves to, also when the new image comes from the file path of
\* an earlier one.
C26_ImageRunsKeepTheirBlob ==
    [][last'.op = "insert_image" =>
          \A name \in ImageRefs(doc) :
              Resource(resources', name) = Resource(resources, name)]_vars


\* The password verify_exam_password accepts in this state: the stored one,
\* the built-in one when none is stored.
PasswordAccepted(pwd) ==
    LET d == settings.settings
    IN IF d.exam_password_hash = "None" \/ d.exam_password_salt = "None"
       THEN pwd = DefaultPassword
       ELSE HashPassword(pwd, d.exam_password_salt).hash = d.exam_password_hash

\* C27: once exam_mode is True it becomes False only through toggle_exam_mode
\* with a password verify_exam_password accepts; reset_settings, save_settings,
\* change_exam_password, a wrong or empty password and cancel leave it True.
C27_ExamModeNeedsPassword ==
    [][(settings.settings.exam_mode /\ ~settings'.settings.exam_mode) =>
          /\ last'.op = "toggle_exam_mode"
          /\ dialogs'[1].icon = "input"
          /\ PasswordAccepted(dialogs'[1].text)]_vars


\* A countdown has been started and not reset: start_timer enables the pause
\* button and only reset_timer disables it.
CountdownStarted == timer.pause_enabled

\* C28: whatever the buttons, tabs and ticks, a countdown that has been started
\* and not reset stays in range, 0 <= remaining_seconds <= total_seconds, and
\* while it is running remaining_seconds never increases.
C28_CountdownInRange ==
    [][/\ CountdownStarted' =>
            /\ 0 <= timer'.remaining_seconds
            /\ timer'.remaining_seconds <= timer'.total_seconds
       /\ (CountdownStarted /\ timer.is_running /\ CountdownStarted')
            => timer'.remaining_seconds <= timer.remaining_seconds]_vars


\* The countdown is under way: started, not reset, the QTimer firing.
CountdownRunning == CountdownStarted /\ timer.is_running /\ timer.active

\* The dialog is back in its initial state after a countdown.
CountdownFinished ==
    /\ timer.remaining_seconds = 0
    /\ ~timer.active
    /\ ~timer.is_running
    /\ timer.start_enabled
    /\ ~timer.pause_enabled

\* The last operation paused or reset the shared timer.
PausedOrReset ==
    last.op \in {"pause_timer", "reset_timer", "pause_stopwatch", "reset_stopwatch"}

\* start_timer found a duration of 0 in the spin boxes.
ZeroDurationRefused ==
    last.op = "start_timer" /\ HasDialog(dialogs, "warning", "Erreur", "duree superieure a 0")

\* C29: with the ticks arriving, a countdown under way that is neither paused
\* nor reset finishes: remaining_seconds is 0, the QTimer is stopped,
\* is_running is False, start is enabled and pause disabled.  (The stopwatch is
\* followed up to MaxSeconds only.)  start_timer with a duration of 0 starts
\* nothing.
C29_CountdownFinishes ==
    /\ CountdownRunning
          ~> (CountdownFinished \/ PausedOrReset \/ timer.remaining_seconds = MaxSeconds)
    /\ [][ZeroDurationRefused' =>
             /\ timer'.is_running = timer.is_running
             /\ timer'.active = timer.active
             /\ timer'.remaining_seconds = timer.remaining_seconds]_vars

\* The same with the countdown tab kept selected.
TabKept ==
    (CountdownRunning /\ timer.tab = 0)
        ~> (CountdownFinished \/ PausedOrReset \/ timer.tab = 1)


\* The threads of that kind between start() and the return of run().
RunningThreads(sp, kind) == {t \in sp.threads : t.kind = kind}

\* The handler of that name was called while a thread of that kind was running.
CalledWhileRunning(op, kind) == last'.op = op /\ RunningThreads(speech, kind) # {}

\* The handler changed nothing: the threads, the references to them, the
\* document and the status line are as before.
NothingChanged ==
    /\ speech' = speech
    /\ doc' = doc
    /\ is_modified' = is_modified
    /\ status' = status

\* C30: at most one voice-recognition thread and at most one text-to-speech
\* thread run at any time; start_dictation and read_text_aloud called while a
\* thread of their kind is running change nothing, and a thread is started
\* only when none of its kind is running.
C30_OneThreadPerKind ==
    [][/\ \A kind \in {"voice", "tts"} : Cardinality(RunningThreads(speech', kind)) <= 1
       /\ CalledWhileRunning("start_dictation", "voice") => NothingChanged
       /\ CalledWhileRunning("read_text_aloud", "tts") => NothingChanged
       /\ \A t \in speech'.threads \ speech.threads :
             t.pc = "started" => RunningThreads(speech, t.kind) = {}]_vars

\* start_dictation was called while a dictation and a reading were both
\* running, and answered that a dictation is under way.
C30_Witness ==
    /\ last.op = "start_dictation"
    /\ HasDialog(dialogs, "warning", "Dictee en cours", "deja en cours")
    /\ RunningThreads(speech, "voice") # {}
    /\ RunningThreads(speech, "tts") # {}

====
